---- MODULE Spec2Model ----
(***************************************************************************)
(* Verification model of aws-ecs-service-recommendations.                  *)
(*                                                                         *)
(* Components modelled, each with its own specification:                   *)
(*   SpecSummarize  AIRecommender._summarize_metrics and                   *)
(*                  AIRecommender._fallback_recommendations                *)
(*   SpecReply      AIRecommender.generate_recommendations and             *)
(*                  generate_service_recommendations over model replies    *)
(*   SpecService    generate_service_recommendations over metrics and logs *)
(*   SpecDB         KnowledgeDB store/get of recommendations               *)
(*   SpecBatch      get_cluster_recommendations and                        *)
(*                  get_specific_cluster_recommendations (gather)          *)
(*   SpecMonitor    ECSMonitor.get_cluster_details / get_cluster_metrics   *)
(*                                                                         *)
(* Python values are modelled as follows: a list is a sequence, a dict is  *)
(* a function whose DOMAIN is its key set, a float that is a quotient of   *)
(* integers is the pair <<numerator, denominator>> and is compared by      *)
(* cross-multiplication, the outcome of a call that may raise is a record   *)
(* [raised, value].                                                        *)
(***************************************************************************)
EXTENDS Integers, Sequences, FiniteSets, TLC

VARIABLES
    pc,              \* position of the operation under study
    metrics,         \* argument of _summarize_metrics: cluster -> list of services
    summary,         \* value returned by _summarize_metrics
    recommendations, \* value returned by (generate/_fallback)_recommendations
    bedrock,         \* AIRecommender.bedrock: TRUE when a client exists
    converse,        \* outcome of bedrock.converse: Raise or the reply text
    svc_metrics,     \* metrics argument of generate_service_recommendations
    logs,            \* logs argument of generate_service_recommendations
    svc_result,      \* value returned by generate_service_recommendations
    table,           \* KnowledgeDB.table: is it available, and its items
    recommendations_table, \* KnowledgeDB.recommendations_table, likewise
    last_put,        \* history: the last item each store call wrote, per key
    last_call,       \* the last KnowledgeDB call and what it returned
    now,             \* datetime.now(), in ticks
    cluster_data,    \* cluster snapshot the request handlers iterate over
    faults,          \* which service's analysis / fetch raises
    task_state,      \* per service: position of its process_service coroutine
    task_result,     \* per service: value its process_service returned
    response,        \* value returned by the request handler / monitor method
    handler,         \* which request handler / monitor method is running
    chat_history,    \* app.chat_history: per account, the list of messages
    chat_start,      \* chat_history when the first request came in
    ai_recommenders, \* app.ai_recommenders: per account, is there a Bedrock client
    requests,        \* requests in flight: handler, arguments, position
    calls,           \* number of requests received so far
    args,            \* arguments of the function under study
    result,          \* what the function under study returned
    monitor,         \* the ECSMonitor a handler got from get_monitor, or None
    trace            \* the calls the running handler has made, in order

vars == <<pc, metrics, summary, recommendations, bedrock, converse, svc_metrics,
          logs, svc_result, table, recommendations_table, last_put, last_call,
          now, cluster_data, faults, task_state, task_result, response, handler,
          chat_history, chat_start, ai_recommenders, requests, calls, args, result,
          monitor, trace>>

aiVars  == <<metrics, summary, recommendations, bedrock, converse>>
svcVars == <<svc_metrics, logs, svc_result>>
dbVars  == <<table, recommendations_table, last_put, last_call, now>>
appVars == <<cluster_data, faults, task_state, task_result, response, handler>>
chatVars == <<chat_history, chat_start, ai_recommenders, requests, calls>>
fnVars  == <<args, result>>
monVars == <<monitor, trace>>
restVars == <<chatVars, fnVars, monVars>>

-----------------------------------------------------------------------------
(* Bounds of the model *)

MaxSamples == 2        \* data points per metric series
MaxServices == 2       \* services summed over the clusters of one metrics dict
MaxText == 4           \* tokens in a model reply
MaxErrorLogs == 11     \* error lines in a service's logs
MaxStores == 2         \* store calls in one run of the knowledge store
MaxBatch == 3
MaxListed == 11          \* services in one cluster snapshot
MaxCalls == 6          \* requests handled one after another
MaxInFlight == 2       \* requests in flight at the same time

(* Program constants *)

CPU_HIGH_THRESHOLD == 80
MEMORY_HIGH_THRESHOLD == 80
ERROR_LOG_THRESHOLD == 10
ECS_BATCH_SIZE == 10
RECOMMENDATIONS_TTL == 2592000
METRICS_TTL == 604800
CHAT_HISTORY_LIMIT == 10
CLUSTER_DATA_TTL == 86400
RESPONSE_TIME_THRESHOLD == 2
REQUEST_VOLUME_THRESHOLD == 1000
DEFAULT_PAGE_LIMIT == 10

-----------------------------------------------------------------------------
(* Generic helpers *)

None == "None"

Range(s) == {s[i] : i \in DOMAIN s}

RECURSIVE SeqsUpTo(_, _)
SeqsUpTo(S, n) ==
    IF n = 0 THEN {<<>>}
    ELSE LET shorter == SeqsUpTo(S, n - 1)
         IN  shorter \cup {Append(s, x) : s \in {t \in shorter : Len(t) = n - 1}, x \in S}

SeqsOfLen(S, n) == {s \in SeqsUpTo(S, n) : Len(s) = n}

\* sum(dp["Average"] for dp in series)
RECURSIVE SumSeq(_)
SumSeq(s) == IF s = <<>> THEN 0 ELSE s[1] + SumSeq(Tail(s))

\* Quotients of integers, kept exact: <<n, d>> with d > 0
Rat(n, d) == <<n, d>>
RatAdd(a, b) == <<a[1] * b[2] + b[1] * a[2], a[2] * b[2]>>
RatDivInt(a, k) == <<a[1], a[2] * k>>
RatGT(a, k) == a[1] > k * a[2]
RatEq(a, b) == a[1] * b[2] = b[1] * a[2]

-----------------------------------------------------------------------------
(* AIRecommender._summarize_metrics  (src/ai_recommender.py 97-198)         *)

SampleValues == {70, 90}                        \* "Average" of a data point, percent
Series == SeqsUpTo(SampleValues, MaxSamples)    \* a CloudWatch series
MemorySeries == {<<>>, <<90>>}
ClusterOrder == <<"prod", "dev">>               \* iteration order of the metrics dict
ClusterNames == Range(ClusterOrder)
ServiceNames == <<"api", "web", "worker", "batch">>  \* n-th service of a cluster

\* One element of metrics[cluster], as get_cluster_metrics builds it for a
\* service that has no load balancer attached.
ServiceRecord(name, cpu, memory) ==
    [service |-> name, metrics |-> [cpu |-> cpu, memory |-> memory],
     target_group |-> <<>>]

ServiceLists(n) ==
    {[i \in 1..n |-> ServiceRecord(ServiceNames[i], cm[i][1], cm[i][2])] :
        cm \in [1..n -> Series \X MemorySeries]}

\* avg = sum(dp["Average"] for dp in series) / len(series)
Mean(series) == Rat(SumSeq(series), Len(series))

\* if avg_cpu > 80     (a mutant: >= 80)
HighCpuMutant(avg) == avg[1] >= 80 * avg[2]
HighCpu(avg) == RatGT(avg, 80)

\* if avg_memory > 80
HighMemory(avg) == RatGT(avg, 80)

\* if avg_response_time > Config.RESPONSE_TIME_THRESHOLD
HighResponseTime(avg) == RatGT(avg, RESPONSE_TIME_THRESHOLD)

\* if avg_unhealthy > 0     (a mutant: >= 0)
UnhealthyMutant(avg) == avg[1] >= 0
Unhealthy(avg) == RatGT(avg, 0)

\* if avg_requests > Config.REQUEST_VOLUME_THRESHOLD
HighTraffic(avg) == RatGT(avg, REQUEST_VOLUME_THRESHOLD)

\* f"{service_name}({tg_name})"
TargetLabel(service_name, tg_name) == <<service_name, "(", tg_name, ")">>

\* The loop over the target groups of one service (target_group.items(), kept
\* as the sequence of its [name, data] items): acc after the first k of them.
RECURSIVE TargetGroupLoop(_, _, _)
TargetGroupLoop(acc0, service, k) ==
    IF k = 0 THEN acc0
    ELSE LET acc == TargetGroupLoop(acc0, service, k - 1)
             tg_name == service.target_group[k].name
             tg_data == service.target_group[k].data
             label == TargetLabel(service.service, tg_name)
             hasRt == tg_data.response_time # <<>>
             hasUn == tg_data.unhealthy_hosts # <<>>
             hasRq == tg_data.request_count # <<>>
         IN  [high_response_time_services |->
                  IF hasRt /\ HighResponseTime(Mean(tg_data.response_time))
                  THEN Append(acc.high_response_time_services, label)
                  ELSE acc.high_response_time_services,
              total_response_time |->
                  IF hasRt THEN RatAdd(acc.total_response_time, Mean(tg_data.response_time))
                  ELSE acc.total_response_time,
              response_time_count |->
                  IF hasRt THEN acc.response_time_count + 1 ELSE acc.response_time_count,
              unhealthy_target_services |->
                  IF hasUn /\ Unhealthy(Mean(tg_data.unhealthy_hosts))
                  THEN Append(acc.unhealthy_target_services, label)
                  ELSE acc.unhealthy_target_services,
              high_traffic_services |->
                  IF hasRq /\ HighTraffic(Mean(tg_data.request_count))
                  THEN Append(acc.high_traffic_services, label)
                  ELSE acc.high_traffic_services,
              total_requests |->
                  IF hasRq THEN RatAdd(acc.total_requests, Mean(tg_data.request_count))
                  ELSE acc.total_requests]

\* The loop over the services of one cluster: state after the first n services.
RECURSIVE SummarizeLoop(_, _)
SummarizeLoop(services, n) ==
    IF n = 0
    THEN [high_cpu_services |-> <<>>, high_memory_services |-> <<>>,
          total_cpu |-> Rat(0, 1), total_memory |-> Rat(0, 1), service_count |-> 0,
          targets |-> [high_response_time_services |-> <<>>,
                       total_response_time |-> Rat(0, 1), response_time_count |-> 0,
                       unhealthy_target_services |-> <<>>,
                       high_traffic_services |-> <<>>, total_requests |-> Rat(0, 1)]]
    ELSE LET acc == SummarizeLoop(services, n - 1)
             service == services[n]
             cpu == service.metrics.cpu
             memory == service.metrics.memory
             hasCpu == cpu # <<>>
             hasMem == memory # <<>>
         IN  [high_cpu_services |->
                  IF hasCpu /\ HighCpu(Mean(cpu))
                  THEN Append(acc.high_cpu_services, service.service)
                  ELSE acc.high_cpu_services,
              high_memory_services |->
                  IF hasMem /\ HighMemory(Mean(memory))
                  THEN Append(acc.high_memory_services, service.service)
                  ELSE acc.high_memory_services,
              total_cpu |->
                  IF hasCpu THEN RatAdd(acc.total_cpu, Mean(cpu)) ELSE acc.total_cpu,
              total_memory |->
                  IF hasMem THEN RatAdd(acc.total_memory, Mean(memory))
                  ELSE acc.total_memory,
              service_count |-> acc.service_count + 1,
              targets |-> TargetGroupLoop(acc.targets, service, Len(service.target_group))]

ClusterSummary(services) ==
    LET acc == SummarizeLoop(services, Len(services))
    IN  [service_count |-> Len(services),
         high_cpu_services |-> acc.high_cpu_services,
         high_memory_services |-> acc.high_memory_services,
         high_response_time_services |-> acc.targets.high_response_time_services,
         unhealthy_target_services |-> acc.targets.unhealthy_target_services,
         high_traffic_services |-> acc.targets.high_traffic_services,
         avg_cpu |-> IF acc.service_count > 0
                     THEN RatDivInt(acc.total_cpu, acc.service_count) ELSE Rat(0, 1),
         avg_memory |-> IF acc.service_count > 0
                        THEN RatDivInt(acc.total_memory, acc.service_count)
                        ELSE Rat(0, 1),
         avg_response_time |->
             IF acc.targets.response_time_count > 0
             THEN RatDivInt(acc.targets.total_response_time, acc.targets.response_time_count)
             ELSE Rat(0, 1),
         total_requests |-> acc.targets.total_requests]

SummarizeMetrics(m) == [c \in DOMAIN m |-> ClusterSummary(m[c])]

-----------------------------------------------------------------------------
(* AIRecommender._fallback_recommendations  (src/ai_recommender.py 325-369) *)

Timestamp == "now"      \* datetime.now().isoformat() of the call

ScalingEntry(cluster, service) ==
    [cluster |-> cluster, service |-> service, action |-> "scale_up",
     reason |-> "High CPU utilization detected",
     suggested_capacity |->
        [desired_count |-> "increase by 1-2 tasks",
         cpu |-> "consider increasing CPU allocation",
         memory |-> "monitor memory usage"]]

\* summary.get("high_cpu_services", [])
FlaggedServicesMutant(cluster_summary) == cluster_summary.high_memory_services
FlaggedServices(cluster_summary) == cluster_summary.high_cpu_services

\* for cluster, summary in metrics_summary.items(): for service in high_cpu_services
RECURSIVE ScalingLoop(_, _)
ScalingLoop(metrics_summary, n) ==
    IF n = 0 THEN <<>>
    ELSE LET cluster == ClusterOrder[n]
             flagged == IF cluster \in DOMAIN metrics_summary
                        THEN FlaggedServices(metrics_summary[cluster]) ELSE <<>>
         IN  ScalingLoop(metrics_summary, n - 1)
                \o [i \in 1..Len(flagged) |-> ScalingEntry(cluster, flagged[i])]

FallbackRecommendations(data) ==
    [overall_health |-> "warning",
     scaling_recommendations |-> ScalingLoop(data.metrics_summary, Len(ClusterOrder)),
     performance_issues |-> <<>>,
     cost_optimization |-> <<>>,
     summary |-> "Basic analysis completed. Manual review recommended.",
     generated_at |-> data.timestamp]

AnalysisData(m) ==
    [timestamp |-> Timestamp, metrics_summary |-> SummarizeMetrics(m),
     clusters |-> DOMAIN m]

-----------------------------------------------------------------------------
(* Model replies and json.loads                                             *)
(*                                                                          *)
(* A reply text is a sequence of tokens:                                    *)
(*   "{" "}"  the braces                                                    *)
(*   "F"      the members the prompt asks for, all of them                  *)
(*   "P"      one member only ("summary" / "reason")                        *)
(*   "n"      the text  "nested":  which must be followed by an object     *)
(*   "x"      any other text (prose, a code fence)                          *)
(* JSON objects of this token language:  {}  {F}  {P}  {n OBJECT}           *)

Tokens == {"{", "}", "F", "P", "n", "x"}
Texts == SeqsUpTo(Tokens, MaxText)

RECURSIVE IsJsonObject(_)
IsJsonObject(s) ==
    /\ Len(s) >= 2
    /\ s[1] = "{"
    /\ s[Len(s)] = "}"
    /\ LET body == SubSeq(s, 2, Len(s) - 1)
       IN  \/ body = <<>>
           \/ body = <<"F">>
           \/ body = <<"P">>
           \/ /\ Len(body) >= 1
              /\ body[1] = "n"
              /\ IsJsonObject(Tail(body))

\* Keys of the dict json.loads returns for an object, given the keys the
\* prompt asks for (full) and the single key of a partial reply.
\* Precondition: IsJsonObject(s).
JsonKeys(s, full, partial) ==
    LET body == SubSeq(s, 2, Len(s) - 1)
    IN  IF body = <<>> THEN {}
        ELSE IF body = <<"F">> THEN full
        ELSE IF body = <<"P">> THEN {partial}
        ELSE {"nested"}

\* The dict json.loads returns: every value is what the model wrote.
ModelValue(k) ==
    IF k \in {"overall_health", "service_health"} THEN "good"
    ELSE IF k \in {"scaling_recommendations", "performance_issues",
                   "cost_optimization", "recommendations"} THEN <<>>
    ELSE "from the model"

\* Outcome of a call: the value it returns, or an exception
Ok(v) == [raised |-> FALSE, value |-> v]
Raised == [raised |-> TRUE, value |-> <<>>]

\* json.loads(json_str): a dict, or json.JSONDecodeError
JsonLoads(s, full, partial) ==
    IF IsJsonObject(s)
    THEN Ok([k \in JsonKeys(s, full, partial) |-> ModelValue(k)])
    ELSE Raised

\* d[key] = v
SetKey(d, key, v) == [k \in DOMAIN d \cup {key} |-> IF k = key THEN v ELSE d[k]]

\* bedrock.converse(...): it raises, or the reply carries a text
ConverseOutcome(text) == [raised |-> FALSE, text |-> text]
ConverseRaises == [raised |-> TRUE, text |-> <<>>]

\* str.find("{"): 0-based index of the first "{", or -1
Find(text, ch) ==
    IF \E i \in 1..Len(text) : text[i] = ch
    THEN (CHOOSE i \in 1..Len(text) :
             text[i] = ch /\ \A j \in 1..(i - 1) : text[j] # ch) - 1
    ELSE -1

\* a mutant: the first "}" is taken, not the last
RFindMutant(text, ch) == Find(text, ch)

\* str.rfind("}"): 0-based index of the last "}", or -1
RFind(text, ch) ==
    IF \E i \in 1..Len(text) : text[i] = ch
    THEN (CHOOSE i \in 1..Len(text) :
             text[i] = ch /\ \A j \in (i + 1)..Len(text) : text[j] # ch) - 1
    ELSE -1

\* text[start:end] for 0 <= start, 0 <= end
Slice(text, start, end) == SubSeq(text, start + 1, end)

-----------------------------------------------------------------------------
(* AIRecommender._parse_recommendations and generate_recommendations        *)

AccountKeys == {"overall_health", "scaling_recommendations", "performance_issues",
                "cost_optimization", "summary"}

\* Outcome of a try block: it raised, it returned a value, or it fell through
Returned(v) == [raised |-> FALSE, returned |-> TRUE, value |-> v]
FellThrough == [raised |-> FALSE, returned |-> FALSE, value |-> <<>>]
RaisedInTry == [raised |-> TRUE, returned |-> FALSE, value |-> <<>>]

\* The try block of _parse_recommendations
ParseTryBlock(ai_response, data) ==
    LET start_idx == Find(ai_response, "{")
        end_idx == RFind(ai_response, "}") + 1
    IN  IF start_idx # -1 /\ end_idx # -1
        THEN LET loaded == JsonLoads(Slice(ai_response, start_idx, end_idx),
                                     AccountKeys, "summary")
             IN  IF loaded.raised THEN RaisedInTry
                 ELSE Returned(SetKey(loaded.value, "generated_at", data.timestamp))
        ELSE FellThrough

\* a mutant: generated_at is not added to the parsed dict
ParseRecommendationsMutant(ai_response, data) ==
    LET start_idx == Find(ai_response, "{")
        end_idx == RFind(ai_response, "}") + 1
        loaded == JsonLoads(Slice(ai_response, start_idx, end_idx),
                            AccountKeys, "summary")
    IN  IF start_idx # -1 /\ ~loaded.raised THEN loaded
        ELSE Ok(FallbackRecommendations(data))

ParseRecommendations(ai_response, data) ==
    LET tried == ParseTryBlock(ai_response, data)
    IN  IF tried.returned THEN Ok(tried.value)
        ELSE Ok(FallbackRecommendations(data))

\* a mutant: no try/except around the converse call
GenerateRecommendationsMutant(m, client, reply) ==
    LET data == AnalysisData(m)
    IN  IF ~client THEN Ok(FallbackRecommendations(data))
        ELSE IF reply.raised THEN Raised
        ELSE ParseRecommendations(reply.text, data)

GenerateRecommendations(m, client, reply) ==
    LET data == AnalysisData(m)
        tried == IF reply.raised THEN Raised
                 ELSE ParseRecommendations(reply.text, data)
    IN  IF ~client THEN Ok(FallbackRecommendations(data))
        ELSE IF tried.raised THEN Ok(FallbackRecommendations(data))
        ELSE tried

-----------------------------------------------------------------------------
(* generate_service_recommendations and _fallback_service_recommendations   *)
(* (src/ai_recommender_service.py)                                          *)

ServiceKeys == {"service_health", "scaling_action", "reason", "recommendations",
                "priority"}

\* Log lines, and  any(keyword in log.lower() for keyword in
\* ["error", "exception", "failed"])
ErrorLines == <<"ERROR: connection timeout", "Unhandled Exception in worker",
                "health check FAILED">>
InfoLine == "service started"
HasErrorKeyword(log) == log \in Range(ErrorLines)

\* n error lines followed by m other lines
LogList(n, m) ==
    [i \in 1..(n + m) |-> IF i <= n THEN ErrorLines[(i % Len(ErrorLines)) + 1]
                          ELSE InfoLine]

\* [log for log in logs if any(...)]
RECURSIVE FilterErrors(_)
FilterErrors(lines) ==
    IF lines = <<>> THEN <<>>
    ELSE IF HasErrorKeyword(lines[1]) THEN <<lines[1]>> \o FilterErrors(Tail(lines))
    ELSE FilterErrors(Tail(lines))

ServiceData(m, lines, cluster_name, service_name) ==
    [service_name |-> service_name, cluster_name |-> cluster_name, metrics |-> m,
     logs_count |-> Len(lines), error_logs |-> FilterErrors(lines)]

VerifyMetrics == "Verify CloudWatch metrics collection is enabled for this service"

\* return value of the branch  "if not cpu_data and not memory_data"
NoMetricsResponse ==
    [service_health |-> "warning",
     scaling_action |-> "no_change",
     reason |-> "Unable to assess service performance due to missing CPU and memory metrics data. The metrics arrays are empty, indicating a potential monitoring issue.",
     recommendations |->
        <<VerifyMetrics,
          "Check IAM permissions for CloudWatch:GetMetricStatistics",
          "Ensure ECS service has proper task definition with awslogs driver">>,
     priority |-> "medium"]

\* "high" if health == "critical" else "medium" if health == "warning" else "low"
PriorityMutant(health) == IF health = "critical" THEN "high" ELSE "medium"
Priority(health) ==
    IF health = "critical" THEN "high"
    ELSE IF health = "warning" THEN "medium" ELSE "low"

FallbackServiceRecommendations(service_data) ==
    LET cpu_data == service_data.metrics.cpu
        memory_data == service_data.metrics.memory
        cpuHigh == cpu_data # <<>> /\ RatGT(Mean(cpu_data), CPU_HIGH_THRESHOLD)
        memHigh == memory_data # <<>> /\ RatGT(Mean(memory_data), MEMORY_HIGH_THRESHOLD)
        errHigh == Len(service_data.error_logs) > ERROR_LOG_THRESHOLD
        health1 == IF cpuHigh THEN "warning" ELSE "good"
        health2 == IF memHigh
                   THEN (IF health1 = "warning" THEN "critical" ELSE "warning")
                   ELSE health1
        health == IF errHigh THEN "warning" ELSE health2
        action == IF cpuHigh \/ memHigh THEN "scale_up" ELSE "no_change"
        recs == (IF cpuHigh THEN <<"High CPU usage detected - consider scaling up">>
                 ELSE <<>>)
                \o (IF memHigh
                    THEN <<"High memory usage detected - consider scaling up">>
                    ELSE <<>>)
                \o (IF errHigh
                    THEN <<"High error rate in logs - investigate application issues">>
                    ELSE <<>>)
    IN  IF cpu_data = <<>> /\ memory_data = <<>>
        THEN NoMetricsResponse
        ELSE [service_health |-> health,
              scaling_action |-> action,
              reason |-> "Analysis of service metrics and logs",
              recommendations |-> IF recs # <<>> THEN recs
                                  ELSE <<"Service appears healthy">>,
              priority |-> Priority(health)]

\* The try block of generate_service_recommendations
ServiceTryBlock(reply) ==
    IF reply.raised THEN RaisedInTry
    ELSE LET ai_response == reply.text
             start_idx == Find(ai_response, "{")
             end_idx == RFind(ai_response, "}") + 1
         IN  IF start_idx # -1 /\ end_idx # -1
             THEN LET loaded == JsonLoads(Slice(ai_response, start_idx, end_idx),
                                          ServiceKeys, "reason")
                  IN  IF loaded.raised THEN RaisedInTry ELSE Returned(loaded.value)
             ELSE FellThrough

\* a mutant: the check for missing metrics is skipped
GenerateServiceRecommendationsMutant(client, m, lines, reply) ==
    LET service_data == ServiceData(m, lines, "prod", "api")
        tried == ServiceTryBlock(reply)
    IN  IF ~client THEN Ok(FallbackServiceRecommendations(service_data))
        ELSE IF tried.returned THEN Ok(tried.value)
        ELSE Ok(FallbackServiceRecommendations(service_data))

GenerateServiceRecommendations(client, m, lines, reply) ==
    LET service_data == ServiceData(m, lines, "prod", "api")
        tried == ServiceTryBlock(reply)
    IN  IF m.cpu = <<>> /\ m.memory = <<>>
        THEN Ok(FallbackServiceRecommendations(service_data))
        ELSE IF ~client THEN Ok(FallbackServiceRecommendations(service_data))
        ELSE IF tried.returned THEN Ok(tried.value)
        ELSE Ok(FallbackServiceRecommendations(service_data))

-----------------------------------------------------------------------------
(* Values of the variables a specification does not use *)

IdleAI ==
    /\ metrics = <<>>
    /\ summary = <<>>
    /\ recommendations = <<>>
    /\ bedrock = FALSE
    /\ converse = ConverseRaises

IdleService ==
    /\ svc_metrics = <<>>
    /\ logs = <<>>
    /\ svc_result = <<>>

IdleDB ==
    /\ table = <<>>
    /\ recommendations_table = <<>>
    /\ last_put = <<>>
    /\ last_call = <<>>
    /\ now = 0

IdleApp ==
    /\ cluster_data = <<>>
    /\ faults = <<>>
    /\ task_state = <<>>
    /\ task_result = <<>>
    /\ response = <<>>
    /\ handler = None

IdleChat ==
    /\ chat_history = <<>>
    /\ chat_start = <<>>
    /\ ai_recommenders = <<>>
    /\ requests = <<>>
    /\ calls = 0

IdleFn ==
    /\ args = <<>>
    /\ result = <<>>

IdleMon ==
    /\ monitor = None
    /\ trace = <<>>

IdleRest == IdleChat /\ IdleFn /\ IdleMon

-----------------------------------------------------------------------------
(* SpecSummarize: _summarize_metrics, then _fallback_recommendations on its *)
(* result, for every metrics dict within the bounds                         *)

InitSummarize ==
    /\ pc = "start"
    /\ \E n1 \in 0..MaxServices : \E n2 \in 0..(MaxServices - n1) :
          \E a \in ServiceLists(n1), b \in ServiceLists(n2) :
             metrics = [c \in ClusterNames |-> IF c = ClusterOrder[1] THEN a ELSE b]
    /\ summary = <<>>
    /\ recommendations = <<>>
    /\ bedrock = FALSE
    /\ converse = ConverseRaises
    /\ IdleService /\ IdleDB /\ IdleApp /\ IdleRest

CallSummarizeMetrics ==
    /\ pc = "start"
    /\ summary' = SummarizeMetrics(metrics)
    /\ pc' = "summarized"
    /\ UNCHANGED <<metrics, recommendations, bedrock, converse>>
    /\ UNCHANGED <<svcVars, dbVars, appVars, restVars>>

CallFallbackRecommendations ==
    /\ pc = "summarized"
    /\ recommendations' =
          FallbackRecommendations([timestamp |-> Timestamp,
                                   metrics_summary |-> summary,
                                   clusters |-> DOMAIN metrics])
    /\ pc' = "done"
    /\ UNCHANGED <<metrics, summary, bedrock, converse>>
    /\ UNCHANGED <<svcVars, dbVars, appVars, restVars>>

NextSummarize == CallSummarizeMetrics \/ CallFallbackRecommendations

SpecSummarize == InitSummarize /\ [][NextSummarize]_vars

Summarized == pc \in {"summarized", "done"}

\* C1: a service name is in its cluster's high_cpu_services iff the arithmetic
\* mean of the Average values of its CPU samples is strictly greater than 80;
\* a mean of exactly 80 is excluded.
C1_HighCpuIffMeanAbove80 ==
    Summarized =>
        \A c \in DOMAIN metrics : \A i \in 1..Len(metrics[c]) :
            LET cpu == metrics[c][i].metrics.cpu
            IN  (metrics[c][i].service \in Range(summary[c].high_cpu_services))
                    <=> (cpu # <<>> /\ SumSeq(cpu) > 80 * Len(cpu))

\* C1 witness: a cluster with one service whose mean is exactly 80 (70 and 90),
\* left out, next to one at 90, listed alone.
C1_Witness ==
    /\ Summarized
    /\ \E c \in DOMAIN metrics :
          /\ Len(metrics[c]) = 2
          /\ metrics[c][1].metrics.cpu = <<90>>
          /\ metrics[c][2].metrics.cpu = <<70, 90>>
          /\ summary[c].high_cpu_services = <<metrics[c][1].service>>

\* Mean, over the services of a cluster that have a non-empty series, of the
\* per-service means: <<sum of means, number of such services>> as a quotient.
RECURSIVE SumOfMeans(_, _)
SumOfMeans(services, key) ==
    IF services = <<>> THEN Rat(0, 1)
    ELSE LET series == services[1].metrics[key]
             rest == SumOfMeans(Tail(services), key)
         IN  IF series = <<>> THEN rest ELSE RatAdd(Mean(series), rest)

NonEmptyCount(services, key) ==
    Cardinality({i \in 1..Len(services) : services[i].metrics[key] # <<>>})

\* C2: a service with an empty CPU (memory) series is omitted from the
\* cluster-wide avg_cpu (avg_memory): the cluster average is the mean of the
\* per-service means over the services that have a non-empty series.
C2_EmptySeriesOmitted ==
    Summarized =>
        \A c \in DOMAIN metrics :
            /\ NonEmptyCount(metrics[c], "cpu") > 0 =>
                  RatEq(summary[c].avg_cpu,
                        RatDivInt(SumOfMeans(metrics[c], "cpu"),
                                  NonEmptyCount(metrics[c], "cpu")))
            /\ NonEmptyCount(metrics[c], "memory") > 0 =>
                  RatEq(summary[c].avg_memory,
                        RatDivInt(SumOfMeans(metrics[c], "memory"),
                                  NonEmptyCount(metrics[c], "memory")))

\* C6: _fallback_recommendations returns overall_health "warning"; its
\* scaling_recommendations hold exactly one entry per (cluster, service) in
\* high_cpu_services and no other entry; every entry has action "scale_up" and
\* the reason "High CPU utilization detected".
C6_FallbackScalesUpHighCpu ==
    pc = "done" =>
        LET recs == recommendations.scaling_recommendations
        IN  /\ recommendations.overall_health = "warning"
            /\ \A i \in 1..Len(recs) :
                  /\ recs[i].action = "scale_up"
                  /\ recs[i].reason = "High CPU utilization detected"
                  /\ recs[i].cluster \in DOMAIN summary
                  /\ recs[i].service
                        \in Range(summary[recs[i].cluster].high_cpu_services)
            /\ \A c \in DOMAIN summary :
                  \A name \in Range(summary[c].high_cpu_services) :
                     Cardinality({i \in 1..Len(recs) :
                        recs[i].cluster = c /\ recs[i].service = name}) = 1

\* C6 witness: the same service name is flagged in one cluster, a service is
\* flagged for memory only in the other, and the fallback names the first.
C6_Witness ==
    /\ pc = "done"
    /\ Len(recommendations.scaling_recommendations) = 1
    /\ \E c \in DOMAIN summary, d \in DOMAIN summary :
          /\ c # d
          /\ summary[c].high_cpu_services # <<>>
          /\ summary[d].high_cpu_services = <<>>
          /\ summary[d].high_memory_services # <<>>

-----------------------------------------------------------------------------
(* SpecReply: generate_recommendations and generate_service_recommendations *)
(* for every outcome of the converse call and every reply text              *)

ConverseOutcomes == {ConverseRaises} \cup {ConverseOutcome(t) : t \in Texts}

\* The cluster metrics of the account: no service, or one service at 90% CPU
ReplyMetrics ==
    {[c \in ClusterNames |-> <<>>],
     [c \in ClusterNames |->
        IF c = ClusterOrder[1] THEN <<ServiceRecord("api", <<90>>, <<>>)>> ELSE <<>>]}

\* get_service_specific_metrics of the first service, empty when there is none
FirstServiceMetrics(m) ==
    IF m[ClusterOrder[1]] = <<>> THEN [cpu |-> <<>>, memory |-> <<>>]
    ELSE m[ClusterOrder[1]][1].metrics

InitReply ==
    /\ pc = "start"
    /\ metrics \in ReplyMetrics
    /\ summary = <<>>
    /\ recommendations = <<>>
    /\ bedrock \in BOOLEAN
    /\ converse \in ConverseOutcomes
    /\ svc_metrics = FirstServiceMetrics(metrics)
    /\ logs = <<>>
    /\ svc_result = <<>>
    /\ IdleDB /\ IdleApp /\ IdleRest

CallGenerateRecommendations ==
    /\ pc = "start"
    /\ recommendations' = GenerateRecommendations(metrics, bedrock, converse)
    /\ pc' = "account_done"
    /\ UNCHANGED <<metrics, summary, bedrock, converse>>
    /\ UNCHANGED <<svcVars, dbVars, appVars, restVars>>

CallGenerateServiceRecommendations ==
    /\ pc = "start"
    /\ svc_result' = GenerateServiceRecommendations(bedrock, svc_metrics, logs, converse)
    /\ pc' = "service_done"
    /\ UNCHANGED <<svc_metrics, logs>>
    /\ UNCHANGED <<aiVars, dbVars, appVars, restVars>>

NextReply == CallGenerateRecommendations \/ CallGenerateServiceRecommendations

SpecReply == InitReply /\ [][NextReply]_vars

\* The substring of a text from its first "{" to its last "}" inclusive,
\* empty when there is no such pair in that order.
Candidate(text) ==
    LET opens == {i \in 1..Len(text) : text[i] = "{"}
        closes == {i \in 1..Len(text) : text[i] = "}"}
    IN  IF opens = {} \/ closes = {} THEN <<>>
        ELSE LET first == CHOOSE i \in opens : \A j \in opens : i <= j
                 last == CHOOSE i \in closes : \A j \in closes : j <= i
             IN  SubSeq(text, first, last)

\* The reply reaches the caller as model output
AccountFromModel ==
    bedrock /\ ~converse.raised /\ IsJsonObject(Candidate(converse.text))
ServiceFromModel ==
    /\ ~(svc_metrics.cpu = <<>> /\ svc_metrics.memory = <<>>)
    /\ AccountFromModel

\* C3 as stated: the returned dict has the same top-level key set whether it
\* is model-derived or the fallback: overall_health, scaling_recommendations,
\* performance_issues, cost_optimization, summary, generated_at for the
\* account-wide shape, and service_health, scaling_action, reason,
\* recommendations, priority for the service shape.
C3_SameKeysWhateverTheSource ==
    /\ pc = "account_done" =>
          DOMAIN recommendations.value = AccountKeys \cup {"generated_at"}
    /\ pc = "service_done" => DOMAIN svc_result.value = ServiceKeys

\* C3 amended: the fallback always has exactly the requested keys; a
\* model-derived dict has the keys of the JSON object of the reply, plus
\* generated_at for the account-wide shape, so the two key sets are the same
\* exactly when the object of the reply has the requested keys.
C3_KeysOfFallbackAndOfReply ==
    /\ pc = "account_done" =>
          DOMAIN recommendations.value =
             IF AccountFromModel
             THEN JsonKeys(Candidate(converse.text), AccountKeys, "summary")
                     \cup {"generated_at"}
             ELSE AccountKeys \cup {"generated_at"}
    /\ pc = "service_done" =>
          DOMAIN svc_result.value =
             IF ServiceFromModel
             THEN JsonKeys(Candidate(converse.text), ServiceKeys, "reason")
             ELSE ServiceKeys

\* C3 witness: a reply with all the requested members has been parsed, and
\* the dict has the key set of the fallback.
C3_Witness ==
    /\ pc = "account_done"
    /\ AccountFromModel
    /\ DOMAIN recommendations.value = AccountKeys \cup {"generated_at"}
    /\ recommendations.value.overall_health = "good"

ContainsJsonObject(text) ==
    \E i \in 1..Len(text) : \E j \in i..Len(text) : IsJsonObject(SubSeq(text, i, j))

SameDict(a, b) == DOMAIN a = DOMAIN b /\ \A k \in DOMAIN a : a[k] = b[k]

ModelUnusable == ~bedrock \/ converse.raised \/ ~ContainsJsonObject(converse.text)

\* C4: whenever the model client is absent, the converse call raises, or the
\* reply text contains no JSON-parseable object, generate_recommendations and
\* generate_service_recommendations return the deterministic fallback as a
\* normal value and never raise.
C4_FallbackNeverRaises ==
    /\ pc = "account_done" =>
          /\ ~recommendations.raised
          /\ ModelUnusable =>
                SameDict(recommendations.value,
                         FallbackRecommendations(AnalysisData(metrics)))
    /\ pc = "service_done" =>
          /\ ~svc_result.raised
          /\ ModelUnusable =>
                SameDict(svc_result.value,
                         FallbackServiceRecommendations(
                            ServiceData(svc_metrics, logs, "prod", "api")))

\* C4 witness: the converse call of an existing client raised and the caller
\* got the fallback with its scale-up entry.
C4_Witness ==
    /\ pc = "account_done"
    /\ bedrock
    /\ converse.raised
    /\ ~recommendations.raised
    /\ Len(recommendations.value.scaling_recommendations) = 1

\* The text has no "{", or no "}" after its first "{"
NoBracePair(text) ==
    ~\E i \in 1..Len(text), j \in 1..Len(text) :
        i < j /\ text[i] = "{" /\ text[j] = "}"

\* C17: for every reply text, what is parsed is the substring from the first
\* "{" to the last "}" inclusive: the caller gets the dict of that substring
\* when it is a JSON object and the fallback when it is not; when the text has
\* no "{", or no "}" at or after the first "{", the fallback is returned.
C17_CandidateIsFirstToLast ==
    /\ (pc = "account_done" /\ bedrock /\ ~converse.raised) =>
          LET loaded == JsonLoads(Candidate(converse.text), AccountKeys, "summary")
              fallback == FallbackRecommendations(AnalysisData(metrics))
          IN  /\ ~recommendations.raised
              /\ IF loaded.raised
                 THEN SameDict(recommendations.value, fallback)
                 ELSE SameDict(recommendations.value,
                               SetKey(loaded.value, "generated_at", Timestamp))
              /\ NoBracePair(converse.text) =>
                    SameDict(recommendations.value, fallback)
    /\ (/\ pc = "service_done" /\ bedrock /\ ~converse.raised
        /\ ~(svc_metrics.cpu = <<>> /\ svc_metrics.memory = <<>>)) =>
          LET loaded == JsonLoads(Candidate(converse.text), ServiceKeys, "reason")
              fallback == FallbackServiceRecommendations(
                             ServiceData(svc_metrics, logs, "prod", "api"))
          IN  /\ ~svc_result.raised
              /\ IF loaded.raised
                 THEN SameDict(svc_result.value, fallback)
                 ELSE SameDict(svc_result.value, loaded.value)
              /\ NoBracePair(converse.text) => SameDict(svc_result.value, fallback)

\* C17 witness: an object between two pieces of prose has been parsed, and a
\* reply (a different run) whose only "}" precedes its "{" gave the fallback.
C17_Witness ==
    /\ pc = "account_done"
    /\ bedrock
    /\ converse = ConverseOutcome(<<"x", "{", "}", "x">>)
    /\ DOMAIN recommendations.value = {"generated_at"}

C17_WitnessFallback ==
    /\ pc = "account_done"
    /\ bedrock
    /\ converse = ConverseOutcome(<<"}", "{">>)
    /\ recommendations.value.overall_health = "warning"

-----------------------------------------------------------------------------
(* SpecService: generate_service_recommendations and                        *)
(* _fallback_service_recommendations for every CPU and memory series and    *)
(* every number of error lines within the bounds                            *)

ServiceReplies ==
    {ConverseRaises, ConverseOutcome(<<"{", "F", "}">>), ConverseOutcome(<<"x">>)}

InitService ==
    /\ pc = "start"
    /\ IdleDB /\ IdleApp /\ IdleRest
    /\ metrics = <<>>
    /\ summary = <<>>
    /\ recommendations = <<>>
    /\ bedrock \in BOOLEAN
    /\ converse \in ServiceReplies
    /\ svc_metrics \in [cpu : Series, memory : Series]
    /\ \E n \in 0..MaxErrorLogs, k \in 0..1 : logs = LogList(n, k)
    /\ svc_result = <<>>

CallGenerateService ==
    /\ pc = "start"
    /\ svc_result' = GenerateServiceRecommendations(bedrock, svc_metrics, logs, converse)
    /\ pc' = "generated"
    /\ UNCHANGED <<svc_metrics, logs>>
    /\ UNCHANGED <<aiVars, dbVars, appVars, restVars>>

CallFallbackService ==
    /\ pc = "start"
    /\ svc_result' =
          Ok(FallbackServiceRecommendations(ServiceData(svc_metrics, logs, "prod", "api")))
    /\ pc' = "fallback"
    /\ UNCHANGED <<svc_metrics, logs>>
    /\ UNCHANGED <<aiVars, dbVars, appVars, restVars>>

NextService == CallGenerateService \/ CallFallbackService

SpecService == InitService /\ [][NextService]_vars

\* C5: for a service whose CPU and memory sample arrays are both empty,
\* generate_service_recommendations, with or without a model client and for
\* any log content, returns service_health "warning" (never "good" or
\* "critical") and a recommendations list that asks to verify that metrics
\* collection is enabled.
C5_NoMetricsIsWarning ==
    (pc = "generated" /\ svc_metrics.cpu = <<>> /\ svc_metrics.memory = <<>>) =>
        /\ ~svc_result.raised
        /\ svc_result.value.service_health = "warning"
        /\ VerifyMetrics \in Range(svc_result.value.recommendations)

\* C5 witness: no metrics, a client whose reply is a well-formed object, and
\* more error lines than the threshold; the answer is the warning.
C5_Witness ==
    /\ pc = "generated"
    /\ svc_metrics.cpu = <<>> /\ svc_metrics.memory = <<>>
    /\ bedrock
    /\ converse = ConverseOutcome(<<"{", "F", "}">>)
    /\ Len(FilterErrors(logs)) > ERROR_LOG_THRESHOLD
    /\ svc_result.value.service_health = "warning"

-----------------------------------------------------------------------------
(* KnowledgeDB  (src/knowledge_db.py)                                       *)
(*                                                                          *)
(* A table is [available, items]: available is FALSE when __init__ left the *)
(* attribute None; items is the set of the items the DynamoDB table holds.  *)

\* json.dumps(d): the members of the dict, one after the other
RECURSIVE DumpsDict(_)
DumpsDict(d) ==
    IF DOMAIN d = {} THEN <<>>
    ELSE LET k == CHOOSE x \in DOMAIN d : TRUE
         IN  <<<<k, d[k]>>>> \o DumpsDict([x \in DOMAIN d \ {k} |-> d[x]])

\* json.loads(s) of a dumped dict: the last member of a name wins
LoadsDict(s) ==
    [k \in {s[i][1] : i \in 1..Len(s)} |->
        s[CHOOSE i \in 1..Len(s) :
             s[i][1] = k /\ \A j \in (i + 1)..Len(s) : s[j][1] # k][2]]

\* Table.put_item(Item=item): DynamoDB replaces the item that has the same
\* primary key (hash and range attribute) and adds the item otherwise.
PutItem(items, item, hash, range) ==
    {i \in items : ~(i[hash] = item[hash] /\ i[range] = item[range])} \cup {item}

\* Table.get_item(Key=...): the items with that primary key
GetItem(items, hash, hashValue, range, rangeValue) ==
    {i \in items : i[hash] = hashValue /\ i[range] = rangeValue}

\* f"ACCOUNT#{account_id}"
AccountPk(account_id) == <<"ACCOUNT#", account_id>>

\* "sk": "RECOMMENDATIONS"     (a mutant: one sort key per call)
RecommendationsSkMutant(t) == <<"RECOMMENDATIONS", t>>
RecommendationsSk(t) == <<"RECOMMENDATIONS">>

\* the item store_recommendations writes
RecommendationsItem(account_id, r, t) ==
    [pk |-> AccountPk(account_id), sk |-> RecommendationsSk(t),
     account_id |-> account_id, timestamp |-> t,
     recommendations |-> DumpsDict(r), ttl |-> t + RECOMMENDATIONS_TTL]

\* f"{cluster}#{service}" over names written as sequences of characters
\* (a mutant: no separator)
ServiceClusterKeyMutant(cluster, service) == cluster \o service
ServiceClusterKey(cluster, service) == cluster \o <<"#">> \o service

\* recommendation.get(key, default)
DictGet(d, key, default) == IF key \in DOMAIN d THEN d[key] ELSE default

\* the item store_service_recommendation writes
ServiceRecommendationItem(account_id, cluster, service, r, t) ==
    [account_id |-> account_id,
     service_cluster_key |-> ServiceClusterKey(cluster, service),
     service |-> service, cluster |-> cluster,
     service_health |-> DictGet(r, "service_health", "unknown"),
     scaling_action |-> DictGet(r, "scaling_action", "no_change"),
     priority |-> DictGet(r, "priority", "medium"),
     recommendations |-> DumpsDict(r),
     timestamp |-> t, ttl |-> t + METRICS_TTL]

\* store_recommendations: the items of the table after the call; put_fails
\* says whether put_item raises.
StoreRecommendations(tbl, account_id, r, t, put_fails) ==
    IF ~tbl.available THEN tbl.items
    ELSE IF put_fails THEN tbl.items
    ELSE PutItem(tbl.items, RecommendationsItem(account_id, r, t), "pk", "sk")

\* store_service_recommendation, likewise
StoreServiceRecommendation(tbl, account_id, cluster, service, r, t, put_fails) ==
    IF ~tbl.available THEN tbl.items
    ELSE IF put_fails THEN tbl.items
    ELSE PutItem(tbl.items,
                 ServiceRecommendationItem(account_id, cluster, service, r, t),
                 "account_id", "service_cluster_key")

EmptyDict == <<>>

\* a mutant: stored_at is not added
GetCurrentRecommendationsMutant(tbl, account_id, get_fails) ==
    LET found == GetItem(tbl.items, "pk", AccountPk(account_id),
                         "sk", <<"RECOMMENDATIONS">>)
    IN  IF ~tbl.available \/ get_fails \/ found = {} THEN EmptyDict
        ELSE LoadsDict((CHOOSE i \in found : TRUE).recommendations)

\* get_current_recommendations: the dict it returns
GetCurrentRecommendations(tbl, account_id, get_fails) ==
    LET found == GetItem(tbl.items, "pk", AccountPk(account_id),
                         "sk", <<"RECOMMENDATIONS">>)
    IN  IF ~tbl.available THEN EmptyDict
        ELSE IF get_fails THEN EmptyDict
        ELSE IF found # {}
        THEN LET item == CHOOSE i \in found : TRUE
             IN  SetKey(LoadsDict(item.recommendations), "stored_at", item.timestamp)
        ELSE EmptyDict

-----------------------------------------------------------------------------
(* SpecDB: any sequence of store and get calls on the knowledge store, with *)
(* either table available or not and every call failing or not              *)

Accounts == {"111111111111", "222222222222"}

\* Dicts generate_recommendations returns: the fallback, a model reply
AccountRecs ==
    {[overall_health |-> "warning",
      summary |-> "Basic analysis completed. Manual review recommended.",
      generated_at |-> "now"],
     [overall_health |-> "good", summary |-> "from the model", generated_at |-> "now"]}

\* Dicts generate_service_recommendations returns: the fallback, a model
\* reply that has the member "reason" only
ServiceRecs ==
    {[service_health |-> "warning", scaling_action |-> "scale_up",
      reason |-> "Analysis of service metrics and logs", priority |-> "medium"],
     [reason |-> "from the model"]}

\* Cluster and service names, as sequences of characters
DbClusters == {<<"a">>, <<"a", "b">>}
DbServices == {<<"c">>, <<"b", "c">>}

NoCall == [op |-> None, account |-> None, wrote |-> FALSE]

InitDB ==
    /\ pc = "db"
    /\ IdleAI /\ IdleService /\ IdleApp /\ IdleRest
    /\ table \in {[available |-> a, items |-> {}] : a \in BOOLEAN}
    /\ recommendations_table \in {[available |-> a, items |-> {}] : a \in BOOLEAN}
    /\ last_put = [account |-> [a \in {} |-> <<>>], service |-> [a \in {} |-> <<>>]]
    /\ last_call = [op |-> None, account |-> None, wrote |-> FALSE, prev |-> NoCall]
    /\ now = 0

\* What the next call remembers of the call before it
Brief(call) == [op |-> call.op, account |-> call.account, wrote |-> call.wrote]

CallStoreRecommendations(account_id, r, put_fails) ==
    /\ now < MaxStores
    /\ now' = now + 1
    /\ LET items == StoreRecommendations(table, account_id, r, now', put_fails)
           wrote == items # table.items
       IN  /\ table' = [table EXCEPT !.items = items]
           /\ last_put' =
                 IF wrote
                 THEN [last_put EXCEPT !.account =
                          SetKey(@, account_id, RecommendationsItem(account_id, r, now'))]
                 ELSE last_put
           /\ last_call' = [op |-> "store_recommendations", account |-> account_id,
                            arg |-> r, at |-> now', wrote |-> wrote,
                            prev |-> Brief(last_call)]
    /\ UNCHANGED <<pc, recommendations_table>>
    /\ UNCHANGED <<aiVars, svcVars, appVars, restVars>>

CallGetCurrentRecommendations(account_id, get_fails) ==
    /\ last_call.op # "get_current_recommendations"
    /\ last_call' =
          [op |-> "get_current_recommendations", account |-> account_id,
           result |-> GetCurrentRecommendations(table, account_id, get_fails),
           failed |-> get_fails, wrote |-> FALSE,
           prev |-> IF last_call.op = "store_recommendations"
                    THEN [op |-> last_call.op, account |-> last_call.account,
                          wrote |-> last_call.wrote, arg |-> last_call.arg,
                          at |-> last_call.at]
                    ELSE Brief(last_call)]
    /\ UNCHANGED <<pc, table, recommendations_table, last_put, now>>
    /\ UNCHANGED <<aiVars, svcVars, appVars, restVars>>

CallStoreServiceRecommendation(account_id, cluster, service, r, put_fails) ==
    /\ now < MaxStores
    /\ now' = now + 1
    /\ LET items == StoreServiceRecommendation(recommendations_table, account_id,
                                               cluster, service, r, now', put_fails)
           wrote == items # recommendations_table.items
       IN  /\ recommendations_table' = [recommendations_table EXCEPT !.items = items]
           /\ last_put' =
                 IF wrote
                 THEN [last_put EXCEPT !.service =
                          SetKey(@, <<account_id, cluster, service>>,
                                 ServiceRecommendationItem(account_id, cluster,
                                                           service, r, now'))]
                 ELSE last_put
           /\ last_call' = [op |-> "store_service_recommendation",
                            account |-> account_id, wrote |-> wrote,
                            prev |-> Brief(last_call)]
    /\ UNCHANGED <<pc, table>>
    /\ UNCHANGED <<aiVars, svcVars, appVars, restVars>>

NextDB ==
    \/ \E a \in Accounts, r \in AccountRecs, f \in BOOLEAN :
          CallStoreRecommendations(a, r, f)
    \/ \E a \in Accounts, f \in BOOLEAN : CallGetCurrentRecommendations(a, f)
    \/ \E a \in Accounts, c \in DbClusters, sv \in DbServices, r \in ServiceRecs,
          f \in BOOLEAN : CallStoreServiceRecommendation(a, c, sv, r, f)

SpecDB == InitDB /\ [][NextDB]_vars

GetAfterStore ==
    /\ last_call.op = "get_current_recommendations"
    /\ last_call.prev.op = "store_recommendations"
    /\ last_call.prev.account = last_call.account

-----------------------------------------------------------------------------
(* get_cluster_recommendations and get_specific_cluster_recommendations     *)
(* (src/app.py 1432-1684)                                                   *)

\* Cluster and service names of a snapshot, as sequences of characters
BatchClusterOrder == <<<<"a">>, <<"a", "b">>>>
BatchServiceNames == <<<<"c">>, <<"b", "c">>, <<"d">>, <<"e">>>>

\* What generate_service_recommendations returns for a service
BatchRecs ==
    {[service_health |-> "critical", scaling_action |-> "scale_up",
      reason |-> "Analysis of service metrics and logs", priority |-> "high"],
     [service_health |-> "good", scaling_action |-> "no_change",
      reason |-> "Analysis of service metrics and logs", priority |-> "low"]}

\* The dict process_service returns after the recommendation is stored
ServiceEntry(cluster_name, service, recommendation) ==
    [service_name |-> service.name, cluster_name |-> cluster_name,
     service_details |-> service,
     service_health |-> DictGet(recommendation, "service_health", "unknown"),
     scaling_action |-> DictGet(recommendation, "scaling_action", "no_change"),
     priority |-> DictGet(recommendation, "priority", "medium"),
     reason |-> DictGet(recommendation, "reason", ""),
     recommendations |-> DictGet(recommendation, "recommendations", <<>>)]

\* The dict process_service returns from its except branch
ErrorEntry(cluster_name, service) ==
    [service_name |-> service.name, cluster_name |-> cluster_name,
     service_details |-> service,
     service_health |-> "error", scaling_action |-> "no_change",
     priority |-> "low", reason |-> "Error generating recommendations",
     recommendations |-> <<>>]

\* a mutant: no try/except in process_service
ProcessServiceMutant(cluster_name, service, analysis) ==
    IF analysis.raises THEN Raised
    ELSE Ok(ServiceEntry(cluster_name, service, analysis.recommendation))

\* process_service: analysis says whether fetching the metrics and logs or
\* generating the recommendation raises, and the recommendation otherwise
ProcessService(cluster_name, service, analysis) ==
    IF analysis.raises THEN Ok(ErrorEntry(cluster_name, service))
    ELSE Ok(ServiceEntry(cluster_name, service, analysis.recommendation))

\* priority_order.get(x.get("priority", "medium"), 1)
PriorityOrder(x) ==
    LET p == DictGet(x, "priority", "medium")
    IN  IF p = "high" THEN 0 ELSE IF p = "medium" THEN 1 ELSE IF p = "low" THEN 2 ELSE 1

\* health_order.get(x.get("service_health", "unknown"), 4)
HealthOrder(x) ==
    LET h == DictGet(x, "service_health", "unknown")
    IN  IF h = "error" THEN 0 ELSE IF h = "critical" THEN 1
        ELSE IF h = "warning" THEN 2 ELSE IF h = "good" THEN 3 ELSE 4

SortsBefore(x, y) ==
    \/ PriorityOrder(x) < PriorityOrder(y)
    \/ PriorityOrder(x) = PriorityOrder(y) /\ HealthOrder(x) < HealthOrder(y)

\* list.sort(key=...): stable
RECURSIVE InsertSorted(_, _)
InsertSorted(sorted, x) ==
    IF sorted = <<>> THEN <<x>>
    ELSE IF SortsBefore(x, sorted[Len(sorted)])
    THEN Append(InsertSorted(SubSeq(sorted, 1, Len(sorted) - 1), x), sorted[Len(sorted)])
    ELSE Append(sorted, x)

RECURSIVE SortResults(_)
SortResults(results) ==
    IF results = <<>> THEN <<>>
    ELSE InsertSorted(SortResults(SubSeq(results, 1, Len(results) - 1)),
                      results[Len(results)])

\* await asyncio.gather(*tasks): the results in the order of the tasks, or the
\* exception of a task
Gather(results) ==
    IF \E i \in 1..Len(results) : results[i].raised THEN Raised
    ELSE Ok([i \in 1..Len(results) |-> results[i].value])

-----------------------------------------------------------------------------
(* SpecBatch: one request to either handler over a cached snapshot; the     *)
(* process_service coroutines of a gather run in any order                  *)

Snapshot(n1, n2) ==
    [c \in Range(BatchClusterOrder) |->
        [i \in 1..(IF c = BatchClusterOrder[1] THEN n1 ELSE n2) |->
            [name |-> BatchServiceNames[i]]]]

Analyses == [raises : BOOLEAN, recommendation : BatchRecs]

AllCluster == "get_cluster_recommendations"
OneCluster == "get_specific_cluster_recommendations"

InitBatch ==
    /\ pc = "gather"
    /\ IdleAI /\ IdleService /\ IdleRest
    /\ table = [available |-> TRUE, items |-> {}]
    /\ recommendations_table = [available |-> TRUE, items |-> {}]
    /\ last_put = <<>>
    /\ last_call = <<>>
    /\ now = 1
    /\ \E n1 \in 0..MaxBatch : \E n2 \in 0..(MaxBatch - n1) :
          /\ cluster_data = Snapshot(n1, n2)
          /\ faults \in [{<<BatchClusterOrder[1], i>> : i \in 1..n1}
                             \cup {<<BatchClusterOrder[2], i>> : i \in 1..n2}
                          -> Analyses]
    /\ handler \in {[name |-> AllCluster, cluster |-> 1]}
                      \cup {[name |-> OneCluster, cluster |-> k] :
                               k \in 1..Len(BatchClusterOrder)}
    /\ task_state = [c \in Range(BatchClusterOrder) |->
                        [i \in 1..Len(cluster_data[c]) |-> "pending"]]
    /\ task_result = [c \in Range(BatchClusterOrder) |->
                         [i \in 1..Len(cluster_data[c]) |-> Raised]]
    /\ response = [status |-> 0]

CurrentCluster == BatchClusterOrder[handler.cluster]

\* One process_service coroutine runs to its end
RunProcessService(i) ==
    LET c == CurrentCluster
        service == cluster_data[c][i]
        analysis == faults[<<c, i>>]
    IN  /\ pc = "gather"
        /\ i \in 1..Len(cluster_data[c])
        /\ task_state[c][i] = "pending"
        /\ task_state' = [task_state EXCEPT ![c][i] = "done"]
        /\ task_result' = [task_result EXCEPT ![c][i] = ProcessService(c, service, analysis)]
        /\ recommendations_table' =
              IF analysis.raises THEN recommendations_table
              ELSE [recommendations_table EXCEPT !.items =
                       StoreServiceRecommendation(recommendations_table, "111111111111",
                          c, service.name, analysis.recommendation, now, FALSE)]
        /\ UNCHANGED <<pc, table, last_put, last_call, now, cluster_data, faults,
                       response, handler>>
        /\ UNCHANGED <<aiVars, svcVars, restVars>>

GatherDone ==
    /\ pc = "gather"
    /\ \A i \in 1..Len(cluster_data[CurrentCluster]) :
          task_state[CurrentCluster][i] = "done"

\* get_cluster_recommendations: the gather of one cluster ends and the loop
\* goes on to the next cluster
NextClusterOfLoop ==
    /\ GatherDone
    /\ handler.name = AllCluster
    /\ handler.cluster < Len(BatchClusterOrder)
    /\ ~Gather(task_result[CurrentCluster]).raised
    /\ handler' = [handler EXCEPT !.cluster = @ + 1]
    /\ UNCHANGED <<pc, cluster_data, faults, task_state, task_result, response>>
    /\ UNCHANGED <<aiVars, svcVars, dbVars, restVars>>

\* get_cluster_recommendations returns, or answers 500 from its except branch
ReturnAllClusters ==
    /\ GatherDone
    /\ handler.name = AllCluster
    /\ LET gathered == Gather(task_result[CurrentCluster])
       IN  \/ /\ gathered.raised
              /\ response' = [status |-> 500]
           \/ /\ ~gathered.raised
              /\ handler.cluster = Len(BatchClusterOrder)
              /\ response' =
                    [status |-> 200,
                     clusters |-> [c \in Range(BatchClusterOrder) |->
                                      Gather(task_result[c]).value],
                     total_services |-> Len(task_result[BatchClusterOrder[1]])
                                           + Len(task_result[BatchClusterOrder[2]])]
    /\ pc' = "returned"
    /\ UNCHANGED <<cluster_data, faults, task_state, task_result, handler>>
    /\ UNCHANGED <<aiVars, svcVars, dbVars, restVars>>

\* get_specific_cluster_recommendations returns, or answers 500
ReturnOneCluster ==
    /\ GatherDone
    /\ handler.name = OneCluster
    /\ LET gathered == Gather(task_result[CurrentCluster])
       IN  response' =
              IF gathered.raised THEN [status |-> 500]
              ELSE [status |-> 200,
                    clusters |-> [c \in {CurrentCluster} |-> SortResults(gathered.value)],
                    total_services |-> Len(gathered.value)]
    /\ pc' = "returned"
    /\ UNCHANGED <<cluster_data, faults, task_state, task_result, handler>>
    /\ UNCHANGED <<aiVars, svcVars, dbVars, restVars>>

NextBatch ==
    \/ \E i \in 1..MaxBatch : RunProcessService(i)
    \/ NextClusterOfLoop
    \/ ReturnAllClusters
    \/ ReturnOneCluster

SpecBatch == InitBatch /\ [][NextBatch]_vars

EntriesOf(c, name) ==
    {k \in 1..Len(response.clusters[c]) : response.clusters[c][k].service_name = name}

\* C9 as stated: when the analysis of a service raises, the failing service
\* is excluded from the returned result set, the results of all the other
\* services are returned, and the batch is not aborted.
C9_FailedServiceExcluded ==
    pc = "returned" =>
        /\ response.status = 200
        /\ \A c \in DOMAIN response.clusters : \A i \in 1..Len(cluster_data[c]) :
              Cardinality(EntriesOf(c, cluster_data[c][i].name))
                 = IF faults[<<c, i>>].raises THEN 0 ELSE 1

\* C9 amended: when the analysis of a service raises, the failure is caught
\* and the failing service stays in the result set as an entry with
\* service_health "error", scaling_action "no_change", priority "low" and no
\* recommendations; every other service has its entry with the health of
\* its recommendation, and the batch is never aborted.
C9_FailedServiceReportedAsError ==
    pc = "returned" =>
        /\ response.status = 200
        /\ \A c \in DOMAIN response.clusters :
              /\ Len(response.clusters[c]) = Len(cluster_data[c])
              /\ \A i \in 1..Len(cluster_data[c]) :
                    LET found == EntriesOf(c, cluster_data[c][i].name)
                    IN  /\ Cardinality(found) = 1
                        /\ \A k \in found :
                              LET e == response.clusters[c][k]
                              IN  IF faults[<<c, i>>].raises
                                  THEN /\ e.service_health = "error"
                                       /\ e.scaling_action = "no_change"
                                       /\ e.priority = "low"
                                       /\ e.recommendations = <<>>
                                  ELSE e.service_health
                                          = faults[<<c, i>>].recommendation.service_health

\* C9 witness: of three services of a cluster the second raised, and the
\* answer has the three entries
C9_Witness ==
    /\ pc = "returned"
    /\ response.status = 200
    /\ \E c \in DOMAIN response.clusters :
          /\ Len(cluster_data[c]) >= 2
          /\ faults[<<c, 2>>].raises
          /\ ~faults[<<c, 1>>].raises
          /\ Len(response.clusters[c]) = Len(cluster_data[c])
          /\ \E k \in 1..Len(response.clusters[c]) :
                response.clusters[c][k].service_health = "error"

-----------------------------------------------------------------------------
(* ECSMonitor.get_cluster_details and get_cluster_metrics                   *)
(* (src/ecs_monitor.py 506-544, 596-829)                                    *)
(*                                                                          *)
(* The fault of a service names the call that raises when it is made for    *)
(* that service: "metrics" (get_metric_statistics), "target_group"         *)
(* (describe_target_groups), "task_definition" (describe_task_definition),  *)
(* "describe" (describe_services), or "none".                               *)

FaultKinds == {"none", "metrics", "target_group", "task_definition", "describe"}

\* _get_service_metrics: each query has its own try/except
GetServiceMetrics(fault) ==
    IF fault = "metrics" THEN [cpu |-> <<>>, memory |-> <<>>]
    ELSE [cpu |-> <<90>>, memory |-> <<70>>]

\* _get_target_group_metrics: one try/except around the whole body
GetTargetGroupMetrics(fault) ==
    IF fault = "target_group" THEN "no target groups" ELSE "target groups"

\* get_task_definition_details: the except branch logs and falls to
\* "return task_definition_details", a name that branch never bound, which
\* raises UnboundLocalError
GetTaskDefinitionDetails(fault) ==
    IF fault = "task_definition" THEN Raised ELSE Ok("task definition")

\* ecs.describe_services(cluster=..., services=batch_arns)
DescribeServices(batch, fault_of) ==
    IF \E i \in 1..Len(batch) : fault_of[batch[i]] = "describe" THEN Raised
    ELSE Ok(batch)

\* The body of "for service in services_info['services']" of
\* get_cluster_details: the dict appended to services_details, or the
\* exception that leaves the loop
ServiceDetails(name, fault) ==
    LET service_metrics == GetServiceMetrics(fault)
        target_group_metrics == GetTargetGroupMetrics(fault)
        task_definition_details == GetTaskDefinitionDetails(fault)
    IN  IF task_definition_details.raised THEN Raised
        ELSE Ok([name |-> name,
                 cpu_avg |-> IF service_metrics.cpu # <<>>
                             THEN Mean(service_metrics.cpu) ELSE Rat(0, 1),
                 memory_avg |-> IF service_metrics.memory # <<>>
                                THEN Mean(service_metrics.memory) ELSE Rat(0, 1),
                 target_groups |-> target_group_metrics,
                 task_definition |-> task_definition_details.value])

\* The try block of get_cluster_details for one cluster, from service n on,
\* in batches of ECS_BATCH_SIZE: services_details, or the exception
RECURSIVE DetailsLoop(_, _, _)
DetailsLoop(service_arns, fault_of, n) ==
    IF n > Len(service_arns) THEN Ok(<<>>)
    ELSE LET last == IF n + ECS_BATCH_SIZE - 1 < Len(service_arns)
                     THEN n + ECS_BATCH_SIZE - 1 ELSE Len(service_arns)
             services_info == DescribeServices(SubSeq(service_arns, n, last), fault_of)
             one(i) == ServiceDetails(service_arns[i], fault_of[service_arns[i]])
             rest == DetailsLoop(service_arns, fault_of, last + 1)
         IN  IF services_info.raised THEN Raised
             ELSE IF \E i \in n..last : one(i).raised THEN Raised
             ELSE IF rest.raised THEN Raised
             ELSE Ok([i \in 1..(last - n + 1) |-> one(n + i - 1).value] \o rest.value)

\* get_cluster_details: details[cluster] for every cluster of self.clusters
GetClusterDetails(services_of, fault_of) ==
    [c \in DOMAIN services_of |->
        LET tried == DetailsLoop(services_of[c], fault_of[c], 1)
        IN  IF tried.raised THEN <<>> ELSE tried.value]

\* The try block of get_cluster_metrics for one cluster, up to service n
RECURSIVE MetricsLoop(_, _, _)
MetricsLoop(service_arns, fault_of, n) ==
    IF n = 0 THEN Ok(<<>>)
    ELSE LET before == MetricsLoop(service_arns, fault_of, n - 1)
             name == service_arns[n]
             fault == fault_of[name]
             service_response == DescribeServices(<<name>>, fault_of)
         IN  IF before.raised THEN Raised
             ELSE IF service_response.raised THEN Raised
             ELSE Ok(Append(before.value,
                            [service |-> name, metrics |-> GetServiceMetrics(fault),
                             target_group |-> GetTargetGroupMetrics(fault)]))

\* get_cluster_metrics: a cluster whose try block raises gets no key
GetClusterMetrics(services_of, fault_of) ==
    LET tried(c) == MetricsLoop(services_of[c], fault_of[c], Len(services_of[c]))
    IN  [c \in {d \in DOMAIN services_of : ~tried(d).raised} |-> tried(c).value]

-----------------------------------------------------------------------------
(* SpecMonitor: one call of either method on a monitor with two clusters.   *)
(* The first cluster has up to MaxListed services, enough for a second      *)
(* describe_services batch, and at most one of them has a fault; the other  *)
(* cluster has at most one service.  A service ARN is its position in the   *)
(* list _get_all_services returns.                                          *)

ListedNames(n) == [i \in 1..n |-> i]

InitMonitor ==
    /\ pc = "start"
    /\ IdleAI /\ IdleService /\ IdleDB /\ IdleRest
    /\ \E n1 \in 0..MaxListed, n2 \in 0..1 :
          /\ cluster_data =
                [c \in ClusterNames |->
                    IF c = ClusterOrder[1] THEN ListedNames(n1) ELSE ListedNames(n2)]
          /\ \E bad \in 0..n1, kind \in FaultKinds, other \in FaultKinds :
                faults = [c \in ClusterNames |->
                            IF c = ClusterOrder[1]
                            THEN [i \in 1..n1 |-> IF i = bad THEN kind ELSE "none"]
                            ELSE [i \in 1..n2 |-> other]]
    /\ task_state = <<>>
    /\ task_result = <<>>
    /\ response = <<>>
    /\ handler = None

CallGetClusterDetails ==
    /\ pc = "start"
    /\ handler' = "get_cluster_details"
    /\ response' = GetClusterDetails(cluster_data, faults)
    /\ pc' = "returned"
    /\ UNCHANGED <<cluster_data, faults, task_state, task_result>>
    /\ UNCHANGED <<aiVars, svcVars, dbVars, restVars>>

CallGetClusterMetrics ==
    /\ pc = "start"
    /\ handler' = "get_cluster_metrics"
    /\ response' = GetClusterMetrics(cluster_data, faults)
    /\ pc' = "returned"
    /\ UNCHANGED <<cluster_data, faults, task_state, task_result>>
    /\ UNCHANGED <<aiVars, svcVars, dbVars, restVars>>

NextMonitor == CallGetClusterDetails \/ CallGetClusterMetrics

SpecMonitor == InitMonitor /\ [][NextMonitor]_vars

\* The services a returned dict lists for a cluster
ListedServices(c) ==
    IF c \notin DOMAIN response THEN {}
    ELSE {IF handler = "get_cluster_details" THEN response[c][k].name
          ELSE response[c][k].service : k \in 1..Len(response[c])}

\* C10: when a fetch for one service fails (service description, metric
\* query, target-group lookup or task-definition lookup), only that service's
\* contribution is omitted: the other services of the same cluster are still
\* in the returned result and the cluster's batch is not aborted.
C10_OtherServicesStillPresent ==
    pc = "returned" =>
        \A c \in DOMAIN cluster_data : \A name \in Range(cluster_data[c]) :
            faults[c][name] = "none" => name \in ListedServices(c)

\* The part of C10 the code keeps: a failing metric query or target-group
\* lookup costs no service its entry.
C10_MetricFaultsKeepEveryService ==
    pc = "returned" =>
        \A c \in DOMAIN cluster_data :
            (\A name \in Range(cluster_data[c]) :
                faults[c][name] \in {"none", "metrics", "target_group"})
               => ListedServices(c) = Range(cluster_data[c])

-----------------------------------------------------------------------------
(* chat_history and the handlers that write it (src/app.py 766-818,         *)
(* 1254-1360, 1767-1943)                                                    *)
(*                                                                          *)
(* A message is its role, the kind of its text, and the request that wrote  *)
(* it.  chat_history is a function whose DOMAIN is the set of accounts that *)
(* have a list.                                                             *)

Message(role, text, by) == [role |-> role, text |-> text, by |-> by]

\* chat_history[account_id] = h
SetHistory(history, account_id, h) ==
    [a \in DOMAIN history \cup {account_id} |->
        IF a = account_id THEN h ELSE history[a]]

\* chat_message.context: empty, a context with no service and cluster name,
\* a context that names a service and a cluster.  A non-empty context none of
\* whose members is read gives no details and acts as the empty one.
Contexts == {"none", "priority", "service"}

\* "if chat_message.reset_chat: chat_history[account_id] = []"
ResetChat(history, account_id, reset_chat) ==
    IF reset_chat THEN SetHistory(history, account_id, <<>>) ELSE history

\* "context and account_id in chat_history and len(chat_history[account_id]) >= 2"
ContextGuard(history, account_id, context) ==
    /\ context # "none"
    /\ account_id \in DOMAIN history
    /\ Len(history[account_id]) >= 2

\* Does the handler call monitor.get_service_specific_metrics
FetchesMetrics(context) == context = "service"

\* Is the coroutine suspended at this await.  boto3 calls block, so an await
\* of a coroutine that only makes such calls runs it to its end without
\* giving the event loop a turn; asyncio.gather in monitor_clusters wraps its
\* coroutines in tasks and waits for them on the loop.
SuspendsMutant(point) == TRUE
Suspends(point) == point = "monitor_clusters"

\* chat_history[account_id][:1] + chat_history[account_id][-CHAT_HISTORY_LIMIT:]
\* when the list is longer than CHAT_HISTORY_LIMIT + 1
TrimMutant(h) == h
Trim(h) ==
    IF Len(h) > CHAT_HISTORY_LIMIT + 1
    THEN SubSeq(h, 1, 1) \o SubSeq(h, Len(h) - CHAT_HISTORY_LIMIT + 1, Len(h))
    ELSE h

\* chat_with_ai from "if details:" to its return: the new chat_history.
\* An exception (IndexError of the assignment to [0], the converse call)
\* is caught by the handler and leaves the history as it is at that point.
ChatFinish(history, req) ==
    LET a == req.account
        index_error == req.overwrite /\ Len(history[a]) = 0
        h1 == IF req.overwrite /\ ~index_error
              THEN SetHistory(history, a,
                      [history[a] EXCEPT ![1] = Message("system", "enhanced", req.id)])
              ELSE history
        h2 == IF a \notin DOMAIN h1
              THEN SetHistory(h1, a, <<Message("system", "default", req.id)>>)
              ELSE h1
        h3 == SetHistory(h2, a, Append(h2[a], Message("user", "question", req.id)))
        h4 == SetHistory(h3, a, Append(h3[a], Message("assistant", "reply", req.id)))
    IN  IF index_error THEN history
        ELSE IF ~ai_recommenders[a] THEN h3
        ELSE IF req.fails THEN h3
        ELSE SetHistory(h4, a, Trim(h4[a]))

\* a mutant: the previous chat is not cleared
RecommendationsFinishMutant(history, req) ==
    IF req.fails THEN history
    ELSE SetHistory(history, req.account,
            (IF req.account \in DOMAIN history THEN history[req.account] ELSE <<>>) \o
            <<Message("system", req.handler, req.id),
              Message("assistant", "recommendations", req.id)>>)

\* get_recommendations / get_service_recommendations from "Add
\* recommendations to chat history" to the return
RecommendationsFinish(history, req) ==
    IF req.fails THEN history
    ELSE SetHistory(history, req.account,
            <<Message("system", req.handler, req.id),
              Message("assistant", "recommendations", req.id)>>)

\* The await a request is suspended at, or would be next
NextAwait(req) ==
    IF req.handler = "get_recommendations" THEN "monitor_clusters"
    ELSE "get_service_specific_metrics"

Done(req, history) == [history |-> history, req |-> [req EXCEPT !.pc = "done"]]
Suspended(req, history) ==
    [history |-> history, req |-> [req EXCEPT !.pc = NextAwait(req)]]

\* The event loop gives the coroutine of a request a turn: it runs until it
\* is suspended or returns.  The result is the new chat_history and request.
RunHandler(history, req) ==
    IF req.handler = "chat_with_ai"
    THEN IF req.pc = "start"
         THEN IF req.account \notin DOMAIN ai_recommenders
              THEN Done(req, history)                     \* HTTPException(404)
              ELSE LET h == ResetChat(history, req.account, req.reset_chat)
                       guard == ContextGuard(h, req.account, req.context)
                       entered == [req EXCEPT !.overwrite = guard]
                   IN  IF guard /\ FetchesMetrics(req.context) /\ Suspends(NextAwait(req))
                       THEN Suspended(entered, h)
                       ELSE Done(entered, ChatFinish(h, entered))
         ELSE Done(req, ChatFinish(history, req))
    ELSE IF req.pc = "start" /\ Suspends(NextAwait(req))
         THEN Suspended(req, history)
         ELSE Done(req, RecommendationsFinish(history, req))

-----------------------------------------------------------------------------
(* SpecChat: requests to the three handlers, one after another, for every   *)
(* choice of account, arguments and failure                                 *)

ChatAccounts == {"111111111111", "222222222222"}
Handlers == {"chat_with_ai", "get_recommendations", "get_service_recommendations"}

\* A request as it comes in.  fails: the converse call of chat_with_ai
\* raises; something in the try block of the other two handlers raises.
\* reset_chat and context are read by chat_with_ai only.
Request(id, handler_name, account_id, reset_chat, context, fails) ==
    [id |-> id, handler |-> handler_name, account |-> account_id,
     reset_chat |-> reset_chat /\ handler_name = "chat_with_ai",
     context |-> IF handler_name = "chat_with_ai" THEN context ELSE "none",
     fails |-> fails, overwrite |-> FALSE, pc |-> "start", first |-> 0, last |-> 0]

InitChat ==
    /\ pc = "chat"
    /\ IdleAI /\ IdleService /\ IdleDB /\ IdleApp /\ IdleFn /\ IdleMon
    /\ chat_history = [a \in {} |-> <<>>]
    /\ chat_start = chat_history
    /\ \E registered \in SUBSET ChatAccounts :
          ai_recommenders \in [registered -> BOOLEAN]
    /\ requests = <<>>
    /\ calls = 0

ReceiveRequest(handler_name, account_id, reset_chat, context, fails) ==
    /\ pc = "chat"
    /\ requests = <<>>
    /\ calls < MaxCalls
    /\ calls' = calls + 1
    /\ requests' = <<Request(0, handler_name, account_id, reset_chat, context, fails)>>
    /\ UNCHANGED <<pc, chat_history, chat_start, ai_recommenders>>
    /\ UNCHANGED <<aiVars, svcVars, dbVars, appVars, fnVars, monVars>>

\* The coroutine of the request gets a turn; the request is gone once its
\* handler has returned
Turn ==
    /\ pc = "chat"
    /\ requests # <<>>
    /\ LET ran == RunHandler(chat_history, requests[1])
       IN  /\ chat_history' = ran.history
           /\ requests' = IF ran.req.pc = "done" THEN <<>> ELSE <<ran.req>>
    /\ UNCHANGED <<pc, chat_start, ai_recommenders, calls>>
    /\ UNCHANGED <<aiVars, svcVars, dbVars, appVars, fnVars, monVars>>

NextChat ==
    \/ \E handler_name \in Handlers, account_id \in ChatAccounts,
          reset_chat \in BOOLEAN, context \in Contexts, fails \in BOOLEAN :
          ReceiveRequest(handler_name, account_id, reset_chat, context, fails)
    \/ Turn

SpecChat == InitChat /\ [][NextChat]_vars

\* C11: after any sequence of chat_with_ai, get_recommendations and
\* get_service_recommendations calls, every account's chat history holds at
\* most CHAT_HISTORY_LIMIT + 1 messages.
C11_HistoryCapped ==
    (pc = "chat" /\ requests = <<>>) =>
        \A a \in DOMAIN chat_history : Len(chat_history[a]) <= CHAT_HISTORY_LIMIT + 1

\* What the code keeps of C11: the list chat_with_ai leaves after a converse
\* call that returned is within the cap.
C11_CappedAfterReply ==
    (pc = "chat" /\ requests = <<>>) =>
        \A a \in DOMAIN chat_history :
            (chat_history[a] # <<>>
               /\ chat_history[a][Len(chat_history[a])].text = "reply")
               => Len(chat_history[a]) <= CHAT_HISTORY_LIMIT + 1

-----------------------------------------------------------------------------
(* SpecChatLoop: up to MaxInFlight requests of one account in flight on one *)
(* event loop.                                                              *)
(* The loop runs one coroutine at a time, from where it was suspended to    *)
(* where it is suspended next or returns.  calls counts the turns given, and *)
(* a request keeps the numbers of its first and last turn.                  *)

\* The list an account has when the requests come in: none, or the one an
\* earlier get_recommendations left
StartHistories ==
    {<<>>, <<Message("system", "get_recommendations", 0),
             Message("assistant", "recommendations", 0)>>}

LoopAccount == "111111111111"

InitChatLoop ==
    /\ pc = "loop"
    /\ IdleAI /\ IdleService /\ IdleDB /\ IdleApp /\ IdleFn /\ IdleMon
    /\ \E with_list \in SUBSET {LoopAccount} :
          chat_history \in [with_list -> StartHistories \ {<<>>}]
    /\ chat_start = chat_history
    /\ \E client \in BOOLEAN : ai_recommenders = [a \in ChatAccounts |-> client]
    /\ \E n \in 1..MaxInFlight :
          requests \in
             [1..n -> {Request(0, h, LoopAccount, r, c, f) :
                          h \in Handlers, r \in BOOLEAN, c \in Contexts,
                          f \in BOOLEAN}]
    /\ calls = 0

\* The request in slot k, with the slot as its id
Numbered(k) == [requests[k] EXCEPT !.id = k]

LoopTurn(k) ==
    /\ pc = "loop"
    /\ k \in DOMAIN requests
    /\ requests[k].pc # "done"
    /\ LET ran == RunHandler(chat_history, Numbered(k))
       IN  /\ chat_history' = ran.history
           /\ requests' =
                 [requests EXCEPT ![k] =
                    [ran.req EXCEPT !.first = IF requests[k].pc = "start"
                                              THEN calls + 1 ELSE @,
                                    !.last = calls + 1]]
    /\ calls' = calls + 1
    /\ UNCHANGED <<pc, chat_start, ai_recommenders>>
    /\ UNCHANGED <<aiVars, svcVars, dbVars, appVars, fnVars, monVars>>

NextChatLoop == \E k \in 1..MaxInFlight : LoopTurn(k)

SpecChatLoop == InitChatLoop /\ [][NextChatLoop]_vars

\* The request of slot k as it came in
Fresh(k) ==
    [requests[k] EXCEPT !.id = k, !.pc = "start", !.overwrite = FALSE,
                        !.first = 0, !.last = 0]

\* The handler of a request run alone, from its start to its return
RunAlone(history, req) ==
    LET once == RunHandler(history, req)
    IN  IF once.req.pc = "done" THEN once.history
        ELSE RunHandler(once.history, once.req).history

\* The handlers of the requests order[1], ..., order[n] run one after another
RECURSIVE SerialRun(_, _)
SerialRun(order, n) ==
    IF n = 0 THEN chat_start
    ELSE RunAlone(SerialRun(order, n - 1), Fresh(order[n]))

AllReturned == pc = "loop" /\ \A k \in DOMAIN requests : requests[k].pc = "done"

\* C12 as stated: no handler overwrites or drops a message that another
\* handler appended.
C12_NoMessageOfAnotherHandlerLost ==
    [][\A k \in DOMAIN requests :
          requests'[k] # requests[k] =>
             \A a \in DOMAIN chat_history : \A i \in DOMAIN chat_history[a] :
                chat_history[a][i].by # k =>
                   \E j \in DOMAIN chat_history'[a] :
                      chat_history'[a][j] = chat_history[a][i]]_vars

\* C12 amended: handlers of the same account, interleaved where a handler is
\* suspended, leave the history that the handlers run one after another in
\* some order leave.
C12_SomeSerialOrder ==
    AllReturned =>
        \E order \in Permutations(DOMAIN requests) :
            SerialRun(order, Len(requests)) = chat_history

\* C12 witness: a chat_with_ai request ran from start to return while a
\* get_recommendations request of the same account was suspended, and both
\* wrote the account's list.
C12_Witness ==
    /\ AllReturned
    /\ \E k, l \in DOMAIN requests :
          /\ requests[k].handler = "get_recommendations"
          /\ requests[l].handler = "chat_with_ai"
          /\ requests[k].account = requests[l].account
          /\ requests[k].first < requests[l].first
          /\ requests[l].last < requests[k].last
          /\ ~requests[k].fails
          /\ \E i \in DOMAIN chat_history[requests[k].account] :
                chat_history[requests[k].account][i].by = k

-----------------------------------------------------------------------------
(* KnowledgeDB.store_account, store_cluster_data, get_cluster_data          *)
(* (src/knowledge_db.py 212-235, 270-305) and add_account (src/app.py       *)
(* 628-659)                                                                 *)

\* The shape the store operations share: return when the table is None;
\* otherwise put the item inside try/except, which logs the exception.
\* The result says whether the operation raised and what the table holds.
TryPutMutant(tbl, item, hash, range, put_fails) ==
    [raised |-> tbl.available /\ put_fails,
     items |-> IF tbl.available /\ ~put_fails
               THEN PutItem(tbl.items, item, hash, range) ELSE tbl.items]
TryPut(tbl, item, hash, range, put_fails) ==
    IF ~tbl.available THEN [raised |-> FALSE, items |-> tbl.items]
    ELSE IF put_fails THEN [raised |-> FALSE, items |-> tbl.items]
    ELSE [raised |-> FALSE, items |-> PutItem(tbl.items, item, hash, range)]

\* the item store_account writes
AccountItem(account_data, t) ==
    [pk |-> AccountPk(account_data.account_id), sk |-> <<"ACCOUNT_DATA">>,
     account_id |-> account_data.account_id,
     account_name |-> account_data.account_name,
     access_key |-> DictGet(account_data, "access_key", ""),
     role_arn |-> DictGet(account_data, "role_arn", ""),
     region |-> account_data.region, created_at |-> t, last_updated |-> t]

\* the item store_cluster_data writes
ClusterDataItem(account_id, data, t) ==
    [pk |-> AccountPk(account_id), sk |-> <<"CLUSTER_DATA">>,
     account_id |-> account_id, cluster_data |-> DumpsDict(data),
     timestamp |-> t, ttl |-> t + CLUSTER_DATA_TTL]

StoreAccount(tbl, account_data, t, put_fails) ==
    TryPut(tbl, AccountItem(account_data, t), "pk", "sk", put_fails)

StoreClusterData(tbl, account_id, data, t, put_fails) ==
    TryPut(tbl, ClusterDataItem(account_id, data, t), "pk", "sk", put_fails)

\* get_cluster_data: the dict it returns
GetClusterData(tbl, account_id, get_fails) ==
    LET found == GetItem(tbl.items, "pk", AccountPk(account_id),
                         "sk", <<"CLUSTER_DATA">>)
    IN  IF ~tbl.available THEN EmptyDict
        ELSE IF get_fails THEN EmptyDict
        ELSE IF found # {} THEN LoadsDict((CHOOSE i \in found : TRUE).cluster_data)
        ELSE EmptyDict

\* add_account: what the handler answers, given what store_account did
AddAccount(stored) ==
    IF stored.raised THEN Raised
    ELSE Ok([status |-> "Account added, monitoring started"])

-----------------------------------------------------------------------------
(* SpecStore: store and read calls on a KnowledgeDB whose tables are        *)
(* available or not, with every write failing or not, while time passes.   *)
(* now is the clock in seconds; calls counts the store calls and the clock  *)
(* steps.  A table that was not created by _ensure_table may have           *)
(* DynamoDB's time-to-live enabled on the attribute ttl: DynamoDB then      *)
(* deletes an expired item at some later time of its choosing.              *)

StoreOps == {"store_account", "store_recommendations", "store_cluster_data",
             "store_service_recommendation"}

AccountData(account_id) ==
    [account_id |-> account_id, account_name |-> "name", region |-> "ap-south-1"]

\* Snapshots get_cluster_details returns
ClusterSnapshots ==
    {[c \in {"prod"} |-> <<>>], [c \in {"prod"} |-> <<"api">>]}

InitStore ==
    /\ pc = "store"
    /\ IdleAI /\ IdleService /\ IdleApp /\ IdleRest
    /\ table \in {[available |-> a, items |-> {}, ttl_enabled |-> e] :
                     a \in BOOLEAN, e \in BOOLEAN}
    /\ recommendations_table \in {[available |-> a, items |-> {}] : a \in BOOLEAN}
    /\ last_put = <<>>
    /\ last_call = [op |-> None]
    /\ now = 0

\* What a store operation does to the two tables
StoreOutcome(op, account_id, data, put_fails) ==
    IF op = "store_account"
    THEN StoreAccount(table, AccountData(account_id), now, put_fails)
    ELSE IF op = "store_cluster_data"
    THEN StoreClusterData(table, account_id, data, now, put_fails)
    ELSE IF op = "store_recommendations"
    THEN TryPut(table, RecommendationsItem(account_id, data, now), "pk", "sk", put_fails)
    ELSE TryPut(recommendations_table,
                ServiceRecommendationItem(account_id, <<"a">>, <<"c">>, data, now),
                "account_id", "service_cluster_key", put_fails)

\* One store call, made directly or by add_account
CallStore(op, account_id, data, put_fails, by_add_account) ==
    /\ pc = "store"
    /\ calls < MaxStores
    /\ calls' = calls + 1
    /\ by_add_account => op = "store_account"
    /\ LET outcome == StoreOutcome(op, account_id, data, put_fails)
           tbl == IF op = "store_service_recommendation"
                  THEN recommendations_table ELSE table
       IN  /\ IF op = "store_service_recommendation"
              THEN /\ recommendations_table' =
                         [recommendations_table EXCEPT !.items = outcome.items]
                   /\ table' = table
              ELSE /\ table' = [table EXCEPT !.items = outcome.items]
                   /\ recommendations_table' = recommendations_table
           /\ last_call' = [op |-> op, account |-> account_id,
                            failed |-> ~tbl.available \/ put_fails,
                            raised |-> outcome.raised,
                            before |-> <<table.items, recommendations_table.items>>,
                            after |-> <<table'.items, recommendations_table'.items>>,
                            by_add_account |-> by_add_account]
           /\ response' = IF by_add_account THEN AddAccount(outcome) ELSE <<>>
    /\ UNCHANGED <<pc, last_put, now, cluster_data, faults, task_state, task_result,
                   handler>>
    /\ UNCHANGED <<aiVars, svcVars, fnVars, monVars, chat_history, chat_start, ai_recommenders,
                   requests>>

CallGetClusterData(account_id, get_fails) ==
    /\ pc = "store"
    /\ last_call.op # "get_cluster_data"
    /\ LET found == GetItem(table.items, "pk", AccountPk(account_id),
                            "sk", <<"CLUSTER_DATA">>)
       IN  last_call' =
              [op |-> "get_cluster_data", account |-> account_id, at |-> now,
               failed |-> get_fails,
               stored |-> IF found = {} THEN <<>>
                          ELSE <<(CHOOSE i \in found : TRUE)>>,
               result |-> GetClusterData(table, account_id, get_fails)]
    /\ UNCHANGED <<pc, table, recommendations_table, last_put, now>>
    /\ UNCHANGED <<appVars, aiVars, svcVars, restVars>>

\* Time passes: a second, or a second more than a snapshot lives
ClockStep(seconds) ==
    /\ pc = "store"
    /\ calls < MaxStores
    /\ calls' = calls + 1
    /\ now' = now + seconds
    /\ UNCHANGED <<pc, table, recommendations_table, last_put, last_call>>
    /\ UNCHANGED <<appVars, aiVars, svcVars, fnVars, monVars, chat_history, chat_start,
                   ai_recommenders, requests>>

\* DynamoDB deletes an item whose ttl attribute is in the past
TtlDelete ==
    /\ pc = "store"
    /\ table.ttl_enabled
    /\ \E item \in table.items :
          /\ "ttl" \in DOMAIN item
          /\ item.ttl < now
          /\ table' = [table EXCEPT !.items = @ \ {item}]
    /\ UNCHANGED <<pc, recommendations_table, last_put, last_call, now>>
    /\ UNCHANGED <<appVars, aiVars, svcVars, restVars>>

NextStore ==
    \/ \E op \in StoreOps, a \in Accounts, f \in BOOLEAN, by \in BOOLEAN :
          \E data \in IF op = "store_cluster_data" THEN ClusterSnapshots
                      ELSE IF op = "store_recommendations" THEN AccountRecs
                      ELSE IF op = "store_service_recommendation" THEN ServiceRecs
                      ELSE {<<>>} :
             CallStore(op, a, data, f, by)
    \/ \E a \in Accounts, f \in BOOLEAN : CallGetClusterData(a, f)
    \/ \E seconds \in {1, CLUSTER_DATA_TTL + 1} : ClockStep(seconds)
    \/ TtlDelete

SpecStore == InitStore /\ [][NextStore]_vars

\* C13: a store operation whose table is unavailable or whose write fails
\* returns normally and leaves the stored records unchanged, and add_account
\* still answers with its success status.
C13_FailedStoreIsSilent ==
    (pc = "store" /\ last_call.op \in StoreOps) =>
        /\ ~last_call.raised
        /\ last_call.failed => last_call.after = last_call.before
        /\ last_call.by_add_account =>
              /\ ~response.raised
              /\ response.value.status = "Account added, monitoring started"

\* C13 witness: the write of store_account failed on an available table that
\* holds a record, and add_account answered with success.
C13_Witness ==
    /\ pc = "store"
    /\ last_call.op = "store_account"
    /\ last_call.by_add_account
    /\ last_call.failed
    /\ table.available
    /\ table.items # {}
    /\ ~response.raised

\* C18: a snapshot written at time t carries the expiry t + CLUSTER_DATA_TTL,
\* get_cluster_data returns it for reads before the expiry, and a read after
\* the expiry returns the empty value.
C18_SnapshotExpires ==
    /\ pc = "store" =>
          \A item \in table.items :
             item.sk = <<"CLUSTER_DATA">> => item.ttl = item.timestamp + CLUSTER_DATA_TTL
    /\ (pc = "store" /\ last_call.op = "get_cluster_data" /\ ~last_call.failed
          /\ table.available /\ last_call.stored # <<>>) =>
          IF last_call.at < last_call.stored[1].ttl
          THEN last_call.result = LoadsDict(last_call.stored[1].cluster_data)
          ELSE last_call.result = EmptyDict

-----------------------------------------------------------------------------
(* HTTP error percentage of a target group                                  *)
(* (ECSMonitor._get_target_group_metrics, src/ecs_monitor.py 409-420)       *)
(*                                                                          *)
(* A percentage is kept in hundredths: 3333 is 33.33.                       *)

\* round(x, 2) for x = num / den * 100, in hundredths.  The quotient is a
\* binary float, so a value half-way between two hundredths may go either
\* way: the result is one of the nearest hundredths.
Round2Mutant(num, den) == {(10000 * num) \div den}
Round2(num, den) ==
    LET q == (10000 * num) \div den
    IN  {h \in {q, q + 1} :
            LET diff == IF 10000 * num >= h * den
                        THEN 10000 * num - h * den ELSE h * den - 10000 * num
            IN  2 * diff <= den}

\* The values http_error_percentage may get
HttpErrorPercentage(http_2xx, http_3xx, http_4xx) ==
    LET total_2xx == SumSeq(http_2xx)
        total_3xx == SumSeq(http_3xx)
        total_4xx == SumSeq(http_4xx)
        total_errors == total_3xx + total_4xx
    IN  IF total_2xx > 0 THEN Round2(total_errors, total_2xx)
        ELSE IF total_errors > 0 THEN {10000}
        ELSE {0}

\* dp["Sum"] of the datapoints of the 2XX count, and of the 3XX and 4XX counts
OkSums == {0, 1, 3, 800}
ErrorSums == {0, 1}

InitHttp ==
    /\ pc = "http"
    /\ IdleAI /\ IdleService /\ IdleDB /\ IdleApp /\ IdleChat /\ IdleMon
    /\ \E n2, n3, n4 \in 0..MaxSamples :
          args \in [http_2xx : [1..n2 -> OkSums], http_3xx : [1..n3 -> ErrorSums],
                    http_4xx : [1..n4 -> ErrorSums]]
    /\ result = <<>>

CallErrorPercentage ==
    /\ pc = "http"
    /\ result = <<>>
    /\ \E h \in HttpErrorPercentage(args.http_2xx, args.http_3xx, args.http_4xx) :
          result' = [http_error_percentage |-> h]
    /\ UNCHANGED <<pc, args>>
    /\ UNCHANGED <<aiVars, svcVars, dbVars, appVars, chatVars, monVars>>

NextHttp == CallErrorPercentage

SpecHttp == InitHttp /\ [][NextHttp]_vars

\* C14 as stated: the percentage equals 100 * (3xx + 4xx) / 2xx when the
\* total 2xx count is positive; otherwise it is 100.0 if the total 3xx + 4xx
\* count is nonzero and 0.0 if it is zero.
C14_ErrorPercentage ==
    (pc = "http" /\ result # <<>>) =>
        LET total_2xx == SumSeq(args.http_2xx)
            total_errors == SumSeq(args.http_3xx) + SumSeq(args.http_4xx)
        IN  IF total_2xx > 0
            THEN result.http_error_percentage * total_2xx = 10000 * total_errors
            ELSE result.http_error_percentage = IF total_errors # 0 THEN 10000 ELSE 0

\* C14 amended: when the total 2xx count is positive the percentage is
\* 100 * (3xx + 4xx) / 2xx rounded to two decimal places, that is, within
\* half a hundredth of it.
C14_ErrorPercentageRounded ==
    (pc = "http" /\ result # <<>>) =>
        LET total_2xx == SumSeq(args.http_2xx)
            total_errors == SumSeq(args.http_3xx) + SumSeq(args.http_4xx)
            h == result.http_error_percentage
        IN  IF total_2xx > 0
            THEN /\ 2 * (10000 * total_errors - h * total_2xx) <= total_2xx
                 /\ 2 * (h * total_2xx - 10000 * total_errors) <= total_2xx
            ELSE h = IF total_errors # 0 THEN 10000 ELSE 0

\* C14 witness: two errors against three successes give 66.67
C14_Witness ==
    /\ pc = "http" /\ result # <<>>
    /\ SumSeq(args.http_2xx) = 3
    /\ SumSeq(args.http_3xx) + SumSeq(args.http_4xx) = 2
    /\ result.http_error_percentage = 6667

-----------------------------------------------------------------------------
(* SpecTargets: _summarize_metrics on a cluster whose services have load    *)
(* balancer target groups (src/ai_recommender.py 143-189)                   *)

ResponseTimeSeries == {<<>>, <<3>>}             \* seconds
HealthyHostSeries == {<<0>>, <<2>>}
UnhealthyHostSeries == {<<>>, <<0>>, <<1>>}
RequestSums == {600, 1000, 1400}                \* "Sum" of a request-count data point

\* One value of target_group[tg_name], as _get_target_group_metrics builds it
TargetGroupData ==
    [response_time : ResponseTimeSeries, healthy_hosts : HealthyHostSeries,
     unhealthy_hosts : UnhealthyHostSeries,
     request_count : SeqsUpTo(RequestSums, MaxSamples)]

TargetService(name, target_groups) ==
    [service |-> name, metrics |-> [cpu |-> <<>>, memory |-> <<>>],
     target_group |-> target_groups]

InitTargets ==
    /\ pc = "targets"
    /\ \E a, b \in TargetGroupData :
          \E services \in
                {<<TargetService("api", <<[name |-> "tg-a", data |-> a]>>)>>,
                 <<TargetService("api", <<[name |-> "tg-a", data |-> a],
                                          [name |-> "tg-b", data |-> b]>>)>>,
                 <<TargetService("api", <<[name |-> "tg-a", data |-> a]>>),
                   TargetService("web", <<[name |-> "tg-a", data |-> b]>>)>>} :
             metrics = [c \in {ClusterOrder[1]} |-> services]
    /\ summary = <<>>
    /\ recommendations = <<>>
    /\ bedrock = FALSE
    /\ converse = ConverseRaises
    /\ IdleService /\ IdleDB /\ IdleApp /\ IdleRest

CallSummarizeTargets ==
    /\ pc = "targets"
    /\ summary = <<>>
    /\ summary' = SummarizeMetrics(metrics)
    /\ UNCHANGED <<pc, metrics, recommendations, bedrock, converse>>
    /\ UNCHANGED <<svcVars, dbVars, appVars, restVars>>

NextTargets == CallSummarizeTargets

SpecTargets == InitTargets /\ [][NextTargets]_vars

\* The target groups of a cluster: <<service, item of its target_group>>
TargetsOf(services) ==
    UNION {{<<services[i], services[i].target_group[k]>> :
               k \in 1..Len(services[i].target_group)} : i \in 1..Len(services)}

TargetsSummarized == pc = "targets" /\ summary # <<>>

\* C15 as stated: a service's target group is listed in
\* unhealthy_target_services iff its healthy-host count is zero.
C15_ListedIffNoHealthyHost ==
    TargetsSummarized =>
        \A c \in DOMAIN metrics : \A t \in TargetsOf(metrics[c]) :
            (TargetLabel(t[1].service, t[2].name)
                    \in Range(summary[c].unhealthy_target_services))
                <=> (SumSeq(t[2].data.healthy_hosts) = 0)

\* C15 amended: a service's target group is listed in
\* unhealthy_target_services iff it has unhealthy-host samples and their
\* mean is greater than zero, whatever its healthy-host count.
C15_ListedIffUnhealthyHosts ==
    TargetsSummarized =>
        \A c \in DOMAIN metrics : \A t \in TargetsOf(metrics[c]) :
            (TargetLabel(t[1].service, t[2].name)
                    \in Range(summary[c].unhealthy_target_services))
                <=> (/\ t[2].data.unhealthy_hosts # <<>>
                     /\ SumSeq(t[2].data.unhealthy_hosts) > 0)

\* C15 witness: of two target groups of one service, the one with two healthy
\* hosts and an unhealthy one is listed, the one with no healthy host and no
\* unhealthy host is not.
C15_Witness ==
    /\ TargetsSummarized
    /\ \E c \in DOMAIN metrics :
          /\ Len(metrics[c]) = 1
          /\ Len(metrics[c][1].target_group) = 2
          /\ metrics[c][1].target_group[1].data.healthy_hosts = <<2>>
          /\ metrics[c][1].target_group[1].data.unhealthy_hosts = <<1>>
          /\ metrics[c][1].target_group[2].data.healthy_hosts = <<0>>
          /\ metrics[c][1].target_group[2].data.unhealthy_hosts = <<0>>
          /\ summary[c].unhealthy_target_services =
                <<TargetLabel("api", metrics[c][1].target_group[1].name)>>

\* sum of all request-count samples of all target groups of a cluster
RECURSIVE SumOfRequestSamples(_)
SumOfRequestSamples(targets) ==
    IF targets = {} THEN 0
    ELSE LET t == CHOOSE x \in targets : TRUE
         IN  SumSeq(t[2].data.request_count) + SumOfRequestSamples(targets \ {t})

\* C16 as stated: a service's target group is listed in high_traffic_services
\* iff the sum of its request-count samples exceeds REQUEST_VOLUME_THRESHOLD,
\* and the cluster's total_requests is the sum of all request-count samples of
\* all its target groups.
C16_HighTrafficIffSumAboveThreshold ==
    TargetsSummarized =>
        \A c \in DOMAIN metrics :
            /\ \A t \in TargetsOf(metrics[c]) :
                  (TargetLabel(t[1].service, t[2].name)
                          \in Range(summary[c].high_traffic_services))
                      <=> (SumSeq(t[2].data.request_count) > REQUEST_VOLUME_THRESHOLD)
            /\ RatEq(summary[c].total_requests,
                     Rat(SumOfRequestSamples(TargetsOf(metrics[c])), 1))

\* What the code does instead: it lists a target group iff the mean of its
\* request-count samples exceeds the threshold, and total_requests is the sum
\* of these means.
C16_HighTrafficIffMeanAboveThreshold ==
    TargetsSummarized =>
        \A c \in DOMAIN metrics : \A t \in TargetsOf(metrics[c]) :
            LET rq == t[2].data.request_count
            IN  (TargetLabel(t[1].service, t[2].name)
                        \in Range(summary[c].high_traffic_services))
                    <=> (rq # <<>> /\ SumSeq(rq) > REQUEST_VOLUME_THRESHOLD * Len(rq))

-----------------------------------------------------------------------------
(* get_aws_session  (src/AWSSession.py 9-68)                                *)

\* boto3.session.Session(...): the keyword arguments it was built with, None
\* for those left out
Session(profile_name, access_key_id, secret_access_key, session_token, region_name) ==
    [profile_name |-> profile_name, aws_access_key_id |-> access_key_id,
     aws_secret_access_key |-> secret_access_key,
     aws_session_token |-> session_token, region_name |-> region_name]

\* "if x:" for a string or None
Truthy(x) == x \notin {"", None}

\* assumed_role["Credentials"] of a successful sts assume_role call
TempCredentials ==
    [AccessKeyId |-> "ASIATEMP", SecretAccessKey |-> "temp-secret",
     SessionToken |-> "temp-token"]

\* a mutant: the session token is looked at before the role
GetAwsSessionMutant(region_name, profile_name, role_arn, access_key, secret_key, session_token, assume_role) ==
    IF Truthy(profile_name)
    THEN Ok(Session(profile_name, None, None, None, region_name))
    ELSE IF Truthy(session_token)
    THEN Ok(Session(None, access_key, secret_key, session_token, region_name))
    ELSE IF Truthy(role_arn)
    THEN IF assume_role.raised THEN Raised
         ELSE Ok(Session(None, assume_role.value.AccessKeyId,
                         assume_role.value.SecretAccessKey,
                         assume_role.value.SessionToken, region_name))
    ELSE IF Truthy(access_key)
    THEN Ok(Session(None, access_key, secret_key, None, region_name))
    ELSE Ok(Session(None, None, None, None, region_name))

\* assume_role: the outcome of sts_client.assume_role(RoleArn=role_arn, ...)
GetAwsSession(region_name, profile_name, role_arn, access_key, secret_key, session_token, assume_role) ==
    IF Truthy(profile_name)
    THEN Ok(Session(profile_name, None, None, None, region_name))
    ELSE IF Truthy(role_arn)
    THEN IF assume_role.raised THEN Raised
         ELSE Ok(Session(None, assume_role.value.AccessKeyId,
                         assume_role.value.SecretAccessKey,
                         assume_role.value.SessionToken, region_name))
    ELSE IF Truthy(session_token)
    THEN Ok(Session(None, access_key, secret_key, session_token, region_name))
    ELSE IF Truthy(access_key)
    THEN Ok(Session(None, access_key, secret_key, None, region_name))
    ELSE Ok(Session(None, None, None, None, region_name))

Regions == {"us-east-1", "eu-west-1"}
ArgumentValues(v) == {"", None, v}

InitSession ==
    /\ pc = "session"
    /\ IdleAI /\ IdleService /\ IdleDB /\ IdleApp /\ IdleChat /\ IdleMon
    /\ args \in [region_name : Regions,
                 profile_name : ArgumentValues("dev"),
                 role_arn : ArgumentValues("arn:aws:iam::111111111111:role/monitor"),
                 access_key : ArgumentValues("AKIASTATIC"),
                 secret_key : ArgumentValues("static-secret"),
                 session_token : ArgumentValues("static-token"),
                 assume_role : {Raised, Ok(TempCredentials)}]
    /\ result = <<>>

CallGetAwsSession ==
    /\ pc = "session"
    /\ result = <<>>
    /\ result' = GetAwsSession(args.region_name, args.profile_name, args.role_arn,
                               args.access_key, args.secret_key, args.session_token,
                               args.assume_role)
    /\ UNCHANGED <<pc, args>>
    /\ UNCHANGED <<aiVars, svcVars, dbVars, appVars, chatVars, monVars>>

NextSession == CallGetAwsSession

SpecSession == InitSession /\ [][NextSession]_vars

\* The arguments that name a credential source, highest precedence first
SourceArguments == <<"profile_name", "role_arn", "session_token", "access_key">>

\* The source the precedence selects: the first non-empty argument of
\* SourceArguments, or the default chain when all are empty
SelectedSource(a) ==
    LET given == {i \in 1..Len(SourceArguments) : Truthy(a[SourceArguments[i]])}
    IN  IF given = {} THEN "default"
        ELSE SourceArguments[CHOOSE i \in given : \A j \in given : i <= j]

\* The session was built from this source and from no other
BuiltFrom(source, session, a) ==
    /\ session.region_name = a.region_name
    /\ (source = "profile_name") =>
          session = Session(a.profile_name, None, None, None, a.region_name)
    /\ (source = "role_arn") =>
          session = Session(None, TempCredentials.AccessKeyId,
                            TempCredentials.SecretAccessKey,
                            TempCredentials.SessionToken, a.region_name)
    /\ (source = "session_token") =>
          session = Session(None, a.access_key, a.secret_key, a.session_token,
                            a.region_name)
    /\ (source = "access_key") =>
          session = Session(None, a.access_key, a.secret_key, None, a.region_name)
    /\ (source = "default") =>
          session = Session(None, None, None, None, a.region_name)

\* C19: get_aws_session builds the session from exactly one credential
\* source, chosen by the precedence profile, assumed role, keys with session
\* token, static keys, default chain over the non-empty arguments; a source of
\* lower precedence is never used when an argument of higher precedence is
\* non-empty (a failing assume_role raises, it does not fall to the next one).
C19_OneSourceByPrecedence ==
    (pc = "session" /\ result # <<>>) =>
        IF result.raised
        THEN SelectedSource(args) = "role_arn" /\ args.assume_role.raised
        ELSE BuiltFrom(SelectedSource(args), result.value, args)

\* C19 witness: with a role, a session token and static keys all given, the
\* session carries the credentials of the assumed role.
C19_Witness ==
    /\ pc = "session" /\ result # <<>>
    /\ ~Truthy(args.profile_name)
    /\ Truthy(args.role_arn) /\ Truthy(args.session_token) /\ Truthy(args.access_key)
    /\ ~result.raised
    /\ result.value.aws_session_token = TempCredentials.SessionToken

-----------------------------------------------------------------------------
(* get_accounts  (src/app.py 669-762)                                       *)
(*                                                                          *)
(* Strings the handler searches in are sequences of characters.             *)

AccountDigits == <<"0", "1", "2", "3", "4", "5", "6", "7", "8", "9">>

\* account_id and account_name of the k-th stored account
AccountId(k) == <<AccountDigits[(k \div 10) + 1], AccountDigits[(k % 10) + 1]>>
AccountNames == <<<<"P", "r", "o", "d">>, <<"d", "e", "v">>, <<"Q", "A">>>>
AccountName(k) == AccountNames[(k % Len(AccountNames)) + 1]

\* str.lower()
LowerChar(c) ==
    IF c = "P" THEN "p" ELSE IF c = "Q" THEN "q" ELSE IF c = "A" THEN "a"
    ELSE IF c = "D" THEN "d" ELSE c
Lower(str) == [i \in 1..Len(str) |-> LowerChar(str[i])]

\* sub in str
In(sub, str) ==
    \E i \in 0..(Len(str) - Len(sub)) : SubSeq(str, i + 1, i + Len(sub)) = sub

\* list[start:end] for 0 <= start, 0 <= end
ListSlice(list, start, end) ==
    LET hi == IF end < Len(list) THEN end ELSE Len(list)
    IN  IF start >= hi THEN <<>> ELSE SubSeq(list, start + 1, hi)

\* KnowledgeDB.get_all_accounts: the scan returns the accounts in the order
\* of their ids
GetAllAccounts(tbl) ==
    IF ~tbl.available THEN <<>>
    ELSE LET items == {i \in tbl.items : i.sk = <<"ACCOUNT_DATA">>}
         IN  [k \in 1..Cardinality(items) |->
                LET item == CHOOSE i \in items : i.account_id = AccountId(k)
                IN  [account_id |-> item.account_id,
                     account_name |-> item.account_name,
                     access_key |-> item.access_key, role_arn |-> item.role_arn,
                     region |-> item.region, created_at |-> item.created_at,
                     last_updated |-> item.last_updated]]

\* get_status of a monitor get_monitor has just built: its clusters are []
FreshStatus == [status |-> "inactive", clusters |-> <<>>, last_updated |-> "never"]

\* The loop over the stored accounts: the statuses and the table after the
\* first k accounts.  monitors[k] says whether get_monitor raises for the
\* k-th account.
RECURSIVE AccountsLoop(_, _, _, _, _)
AccountsLoop(tbl, stored_accounts, monitors, t, k) ==
    IF k = 0 THEN [statuses |-> <<>>, tbl |-> tbl]
    ELSE LET acc == AccountsLoop(tbl, stored_accounts, monitors, t, k - 1)
             account == stored_accounts[k]
             account_id == account.account_id
             cached == GetClusterData(acc.tbl, account_id, FALSE)
             \* a fresh monitor has no cluster: get_cluster_details() is {}
             stored == StoreClusterData(acc.tbl, account_id, EmptyDict, t, FALSE)
         IN  IF monitors[k] = "raises"
             THEN [statuses |->
                       Append(acc.statuses,
                              [account_id |-> account_id,
                               account_name |-> account.account_name,
                               status |-> "inactive", clusters |-> <<>>,
                               cluster_details |-> EmptyDict,
                               last_updated |-> "error"]),
                   tbl |-> acc.tbl]
             ELSE [statuses |->
                       Append(acc.statuses,
                              [account_id |-> account_id,
                               account_name |-> account.account_name,
                               status |-> FreshStatus.status,
                               clusters |-> FreshStatus.clusters,
                               cluster_details |-> cached,
                               last_updated |-> FreshStatus.last_updated]),
                   tbl |-> IF DOMAIN cached = {}
                           THEN [acc.tbl EXCEPT !.items = stored.items]
                           ELSE acc.tbl]

\* if search: ...   if status_filter: ...
ApplyFilters(statuses, search, status_filter) ==
    LET search_lower == Lower(search)
        searched ==
            IF search # <<>>
            THEN SelectSeq(statuses,
                           LAMBDA acc : \/ In(search_lower, Lower(acc.account_name))
                                        \/ In(search_lower, Lower(acc.account_id)))
            ELSE statuses
    IN  IF status_filter # ""
        THEN SelectSeq(searched, LAMBDA acc : acc.status = status_filter)
        ELSE searched

\* the "pagination" member of the answer
Pagination(statuses, page, limit) ==
    LET total_count == Len(statuses)
        start_index == (page - 1) * limit
        end_index == start_index + limit
    IN  [page |-> page, limit |-> limit, total_count |-> total_count,
         total_pages |-> (total_count + limit - 1) \div limit,
         has_next |-> end_index < total_count,
         has_prev |-> page > 1]

\* What get_accounts returns, a list or a dict, given the filtered statuses
AccountsAnswer(statuses, page, limit, search, status_filter) ==
    IF page = 1 /\ limit = DEFAULT_PAGE_LIMIT /\ search = <<>> /\ status_filter = ""
    THEN [type |-> "list", value |-> statuses]
    ELSE [type |-> "dict",
          value |-> [accounts |-> ListSlice(statuses, (page - 1) * limit,
                                            (page - 1) * limit + limit),
                     pagination |-> Pagination(statuses, page, limit),
                     filters |-> [search |-> search, status_filter |-> status_filter]]]

\* The filtered account list of a call
FilteredStatuses(tbl, a, t) ==
    LET stored_accounts == GetAllAccounts(tbl)
        looped == AccountsLoop(tbl, stored_accounts, a.monitors, t, Len(stored_accounts))
    IN  ApplyFilters(looped.statuses, a.search, a.status_filter)

Pages == 1..3
Limits == {1, 3, DEFAULT_PAGE_LIMIT}
Searches == {<<>>, <<"d">>, <<"D">>, <<"1">>}
StatusFilters == {"", "active", "inactive"}

\* which accounts get_monitor raises for
MonitorPatterns ==
    {[k \in 1..MaxListed + 1 |-> "created"],
     [k \in 1..MaxListed + 1 |-> IF k % 3 = 0 THEN "raises" ELSE "created"]}

StoredAccountItem(k) ==
    AccountItem([account_id |-> AccountId(k), account_name |-> AccountName(k),
                 region |-> "ap-south-1"], 0)

InitAccounts ==
    /\ pc = "accounts"
    /\ IdleAI /\ IdleService /\ IdleRest
    /\ \E n \in 0..MaxListed, cached \in BOOLEAN :
          table = [available |-> TRUE,
                   items |-> {StoredAccountItem(k) : k \in 1..n} \cup
                             (IF cached /\ n > 0
                              THEN {ClusterDataItem(AccountId(1), [prod |-> <<>>], 0)}
                              ELSE {})]
    /\ recommendations_table = <<>>
    /\ last_put = <<>>
    /\ last_call = <<>>
    /\ now = 1
    /\ cluster_data = <<>> /\ faults = <<>> /\ task_state = <<>> /\ task_result = <<>>
    /\ response = <<>>
    /\ handler = None

CallGetAccounts(page, limit, search, status_filter, monitors) ==
    /\ pc = "accounts"
    /\ handler = None
    /\ LET a == [page |-> page, limit |-> limit, search |-> search,
                 status_filter |-> status_filter, monitors |-> monitors]
           stored_accounts == GetAllAccounts(table)
           looped == AccountsLoop(table, stored_accounts, monitors, now,
                                  Len(stored_accounts))
       IN  /\ last_call' = a
           /\ table' = looped.tbl
           /\ response' = AccountsAnswer(FilteredStatuses(table, a, now),
                                         page, limit, search, status_filter)
    /\ handler' = "get_accounts"
    /\ UNCHANGED <<pc, recommendations_table, last_put, now, cluster_data, faults,
                   task_state, task_result>>
    /\ UNCHANGED <<aiVars, svcVars, restVars>>

NextAccounts ==
    \E page \in Pages, limit \in Limits, search \in Searches,
       status_filter \in StatusFilters, monitors \in MonitorPatterns :
        CallGetAccounts(page, limit, search, status_filter, monitors)

SpecAccounts == InitAccounts /\ [][NextAccounts]_vars

AccountsAnswered == pc = "accounts" /\ handler = "get_accounts"

\* The filtered list of the call that was answered.  The cluster snapshots
\* the call stored do not change it: a snapshot it stored is the empty dict.
AnsweredFiltered ==
    LET stored_accounts == GetAllAccounts(table)
        statuses == [k \in 1..Len(stored_accounts) |->
                        [account_id |-> stored_accounts[k].account_id,
                         account_name |-> stored_accounts[k].account_name,
                         status |-> "inactive"]]
    IN  ApplyFilters(statuses, last_call.search, last_call.status_filter)

\* C20 as stated: for every page >= 1 and limit >= 1, get_accounts returns
\* the accounts list with pagination info: the accounts are the entries
\* (page-1)*limit .. page*limit-1 of the filtered account list, total_pages is
\* ceil(total_count / limit), has_next iff page*limit < total_count, has_prev
\* iff page > 1.
C20_Paginated ==
    AccountsAnswered =>
        /\ response.type = "dict"
        /\ LET filtered == AnsweredFiltered
           IN  /\ Len(response.value.accounts) <= last_call.limit
               /\ response.value.pagination.total_count = Len(filtered)
               /\ response.value.pagination.total_pages * last_call.limit >= Len(filtered)
               /\ (response.value.pagination.total_pages - 1) * last_call.limit
                     < Len(filtered)
               /\ response.value.pagination.has_next
                     <=> (last_call.page * last_call.limit < Len(filtered))
               /\ response.value.pagination.has_prev <=> (last_call.page > 1)
               /\ \A i \in 1..Len(response.value.accounts) :
                     response.value.accounts[i].account_id =
                        filtered[(last_call.page - 1) * last_call.limit + i].account_id

\* What the code does: the claim's pagination holds unless page is 1, limit
\* is 10 and no filter is given; then the whole list is returned, bare.
C20_PaginatedUnlessDefaults ==
    AccountsAnswered =>
        IF /\ last_call.page = 1 /\ last_call.limit = DEFAULT_PAGE_LIMIT
           /\ last_call.search = <<>> /\ last_call.status_filter = ""
        THEN /\ response.type = "list"
             /\ Len(response.value) = Len(AnsweredFiltered)
        ELSE /\ response.type = "dict"
             /\ LET filtered == AnsweredFiltered
                    first == (last_call.page - 1) * last_call.limit
                    rest == IF Len(filtered) > first THEN Len(filtered) - first ELSE 0
                IN  /\ Len(response.value.accounts) =
                          (IF rest < last_call.limit THEN rest ELSE last_call.limit)
                    /\ \A i \in 1..Len(response.value.accounts) :
                          response.value.accounts[i].account_id =
                             filtered[first + i].account_id
                    /\ response.value.pagination.total_pages * last_call.limit
                          >= Len(filtered)
                    /\ (response.value.pagination.total_pages - 1) * last_call.limit
                          < Len(filtered)
                    /\ response.value.pagination.has_next
                          <=> (last_call.page * last_call.limit < Len(filtered))
                    /\ response.value.pagination.has_prev <=> (last_call.page > 1)

-----------------------------------------------------------------------------
(* get_all_recommendations  (src/app.py 461-505)                            *)

\* KnowledgeDB.get_service_recommendations_by_health(account_id): the query
\* returns the items of the account in the order of their range key, here
\* the order of key_order.
GetServiceRecommendationsByHealth(tbl, account_id, key_order) ==
    IF ~tbl.available THEN <<>>
    ELSE LET present == SelectSeq(key_order, LAMBDA key :
                            GetItem(tbl.items, "account_id", account_id,
                                    "service_cluster_key", key) # {})
         IN  [n \in 1..Len(present) |->
                LET item == CHOOSE i \in GetItem(tbl.items, "account_id", account_id,
                                                 "service_cluster_key", present[n]) : TRUE
                IN  [account_id |-> item.account_id, service |-> item.service,
                     cluster |-> item.cluster,
                     service_health |-> item.service_health,
                     scaling_action |-> item.scaling_action,
                     priority |-> item.priority, timestamp |-> item.timestamp,
                     full_recommendation |-> LoadsDict(item.recommendations)]]

\* The loop over the accounts: all_recommendations after the first k accounts
RECURSIVE AllRecommendationsLoop(_, _, _, _)
AllRecommendationsLoop(rec_tbl, accounts, key_order, k) ==
    IF k = 0 THEN <<>>
    ELSE LET recs == GetServiceRecommendationsByHealth(rec_tbl, accounts[k].account_id,
                                                       key_order)
         IN  AllRecommendationsLoop(rec_tbl, accounts, key_order, k - 1) \o
             [n \in 1..Len(recs) |->
                SetKey(recs[n], "account_name", accounts[k].account_name)]

\* grouped[priority][health], the recommendations in their order
Grouped(all_recommendations, priority, health) ==
    SelectSeq(all_recommendations,
              LAMBDA rec : /\ DictGet(rec, "priority", "medium") = priority
                           /\ DictGet(rec, "service_health", "unknown") = health)

priority_order == <<"high", "medium", "low">>
health_order == <<"critical", "warning", "error", "good">>

\* sorted_grouped: a dict keeps the order its keys were added in, so it is
\* kept as the sequence of its (priority, groups) items, and each groups dict
\* as the sequence of its (health, recs) items.
SortedGrouped(all_recommendations) ==
    LET healths(priority) ==
            SelectSeq(health_order, LAMBDA health :
                Grouped(all_recommendations, priority, health) # <<>>)
        priorities == SelectSeq(priority_order, LAMBDA priority :
                          \E h \in {DictGet(all_recommendations[i], "service_health", "unknown") :
                                       i \in 1..Len(all_recommendations)} :
                             Grouped(all_recommendations, priority, h) # <<>>)
    IN  [p \in 1..Len(priorities) |->
            [priority |-> priorities[p],
             groups |-> [h \in 1..Len(healths(priorities[p])) |->
                            [health |-> healths(priorities[p])[h],
                             recs |-> Grouped(all_recommendations, priorities[p],
                                              healths(priorities[p])[h])]]]]

GetAllRecommendations(tbl, rec_tbl, key_order) ==
    LET accounts == GetAllAccounts(tbl)
    IN  SortedGrouped(AllRecommendationsLoop(rec_tbl, accounts, key_order, Len(accounts)))

-----------------------------------------------------------------------------
(* SpecAllRecs: store_service_recommendation calls for the services of two  *)
(* stored accounts, then get_all_recommendations                            *)

\* Dicts generate_service_recommendations returns: fallbacks, per-service
\* error entries, a model reply that has the member "reason" only
GroupedRecs ==
    {[service_health |-> h, priority |-> p] :
        h \in {"critical", "good", "error"}, p \in {"high", "low"}}
    \cup {[reason |-> "from the model"]}

AllRecsCluster == <<"p", "r", "o", "d">>
AllRecsServices == {<<"a", "p", "i">>, <<"w", "e", "b">>}
AllRecsKeyOrder ==
    <<ServiceClusterKey(AllRecsCluster, <<"a", "p", "i">>),
      ServiceClusterKey(AllRecsCluster, <<"w", "e", "b">>)>>

InitAllRecs ==
    /\ pc = "all_recommendations"
    /\ IdleAI /\ IdleService /\ IdleFn /\ IdleMon
    /\ table = [available |-> TRUE, items |-> {StoredAccountItem(k) : k \in 1..2}]
    /\ recommendations_table = [available |-> TRUE, items |-> {}]
    /\ last_put = <<>>
    /\ last_call = <<>>
    /\ now = 0
    /\ cluster_data = <<>> /\ faults = <<>> /\ task_state = <<>> /\ task_result = <<>>
    /\ response = <<>>
    /\ handler = None
    /\ chat_history = <<>> /\ chat_start = <<>> /\ ai_recommenders = <<>>
    /\ requests = <<>>
    /\ calls = 0

StoreOneServiceRecommendation(account_id, service, r) ==
    /\ pc = "all_recommendations"
    /\ handler = None
    /\ calls < MaxStores
    /\ calls' = calls + 1
    /\ now' = now + 1
    /\ recommendations_table' =
          [recommendations_table EXCEPT !.items =
              StoreServiceRecommendation(recommendations_table, account_id,
                                         AllRecsCluster, service, r, now', FALSE)]
    /\ UNCHANGED <<pc, table, last_put, last_call, appVars, aiVars, svcVars, fnVars, monVars,
                   chat_history, chat_start, ai_recommenders, requests>>

CallGetAllRecommendations ==
    /\ pc = "all_recommendations"
    /\ handler = None
    /\ handler' = "get_all_recommendations"
    /\ response' = GetAllRecommendations(table, recommendations_table, AllRecsKeyOrder)
    /\ UNCHANGED <<pc, dbVars, cluster_data, faults, task_state, task_result>>
    /\ UNCHANGED <<aiVars, svcVars, restVars>>

NextAllRecs ==
    \/ \E k \in 1..2, service \in AllRecsServices, r \in GroupedRecs :
          StoreOneServiceRecommendation(AccountId(k), service, r)
    \/ CallGetAllRecommendations

SpecAllRecs == InitAllRecs /\ [][NextAllRecs]_vars

AllRecsAnswered == pc = "all_recommendations" /\ handler = "get_all_recommendations"

\* The places <<p, h, n>> of the response that hold the recommendation of a
\* stored item
PlacesOf(item) ==
    {place \in UNION {UNION {{<<p, h, n>> : n \in 1..Len(response[p].groups[h].recs)} :
                                h \in 1..Len(response[p].groups)} :
                         p \in 1..Len(response)} :
        LET rec == response[place[1]].groups[place[2]].recs[place[3]]
        IN  /\ rec.account_id = item.account_id
            /\ rec.cluster = item.cluster
            /\ rec.service = item.service}

IsSubsequenceOf(s, order) ==
    \E f \in [1..Len(s) -> 1..Len(order)] :
        /\ \A i \in 1..Len(s) : order[f[i]] = s[i]
        /\ \A i \in 1..(Len(s) - 1) : f[i] < f[i + 1]

GroupsOrdered ==
    /\ IsSubsequenceOf([p \in 1..Len(response) |-> response[p].priority], priority_order)
    /\ \A p \in 1..Len(response) :
          IsSubsequenceOf([h \in 1..Len(response[p].groups) |->
                              response[p].groups[h].health], health_order)

\* C21 as stated: every stored service recommendation of every account
\* appears in exactly one (priority, health) group of the response of
\* get_all_recommendations, with priorities ordered high, medium, low and
\* healths ordered critical, warning, error, good.
C21_EveryRecommendationInOneGroup ==
    AllRecsAnswered =>
        /\ \A item \in recommendations_table.items : Cardinality(PlacesOf(item)) = 1
        /\ GroupsOrdered

\* What the code does: a stored recommendation appears, once, in the group of
\* its priority and health when both are in the two orders, and nowhere when
\* one of them is not (a health of "unknown" among them).
C21_OnlyListedHealthsAndPriorities ==
    AllRecsAnswered =>
        /\ \A item \in recommendations_table.items :
              LET places == PlacesOf(item)
              IN  IF /\ item.priority \in Range(priority_order)
                     /\ item.service_health \in Range(health_order)
                  THEN /\ Cardinality(places) = 1
                       /\ \A pl \in places :
                             /\ response[pl[1]].priority = item.priority
                             /\ response[pl[1]].groups[pl[2]].health = item.service_health
                  ELSE places = {}
        /\ GroupsOrdered

-----------------------------------------------------------------------------
(* The system message of a chat history (SpecChat)                          *)

SystemFirst(history) ==
    \A a \in DOMAIN history :
        history[a] # <<>> => history[a][1].role = "system"

\* C22 as stated: after any sequence of chat_with_ai calls, calls with
\* reset_chat among them, a non-empty chat history starts with the
\* system-role message, so that trimming keeps that system message plus the
\* last CHAT_HISTORY_LIMIT conversation messages.
C22_SystemMessageFirst ==
    (pc = "chat" /\ requests = <<>>) => SystemFirst(chat_history)

\* What the code keeps of C22: a request without reset_chat leaves the system
\* message first in every history where it was first.
C22_SystemFirstKeptWithoutReset ==
    [][(/\ pc = "chat" /\ requests # <<>> /\ requests' = <<>>
        /\ ~requests[1].reset_chat
        /\ SystemFirst(chat_history)) => SystemFirst(chat_history')]_vars

RecommendationHandlers == {"get_recommendations", "get_service_recommendations"}

\* C23: a successful get_recommendations or get_service_recommendations
\* leaves the chat history of its account as exactly two messages, a system
\* context message followed by an assistant message carrying the
\* recommendations, whatever the history held before; no step of the handler
\* changes the chat history of another account.
C23_TwoMessagesAfterRecommendations ==
    [][(/\ pc = "chat" /\ requests # <<>>
        /\ requests[1].handler \in RecommendationHandlers) =>
          LET req == requests[1]
          IN  /\ (requests' = <<>> /\ ~req.fails) =>
                    /\ req.account \in DOMAIN chat_history'
                    /\ Len(chat_history'[req.account]) = 2
                    /\ chat_history'[req.account][1].role = "system"
                    /\ chat_history'[req.account][2].role = "assistant"
                    /\ chat_history'[req.account][2].text = "recommendations"
              /\ DOMAIN chat_history' \ {req.account} = DOMAIN chat_history \ {req.account}
              /\ \A a \in DOMAIN chat_history \ {req.account} :
                    chat_history'[a] = chat_history[a]]_vars

\* C23 witness: after three calls one account holds the two messages of
\* get_service_recommendations while the other still holds its chat of three.
C23_Witness ==
    /\ pc = "chat" /\ requests = <<>> /\ calls = 3
    /\ \E a \in DOMAIN chat_history, b \in DOMAIN chat_history :
          /\ a # b
          /\ Len(chat_history[a]) = 2
          /\ chat_history[a][1] = Message("system", "get_service_recommendations", 0)
          /\ chat_history[a][2].role = "assistant"
          /\ Len(chat_history[b]) = 3
          /\ chat_history[b][2].role = "user"

-----------------------------------------------------------------------------
(* The request handlers and scheduled jobs that use an ECSMonitor           *)
(* (src/app.py), as the sequence of the calls each makes                    *)
(*                                                                          *)
(* A step of a handler is an operation and the condition it runs under:     *)
(*   "always"              unconditionally                                  *)
(*   "no_cache"            inside  "if not cluster_data:"                   *)
(*   "no_recommendations"  inside  "if not recommendations:"                *)
(*   "has_service"         once per service of the snapshot                 *)
(* try_from is the first step inside the handler's try block; on_http and   *)
(* on_error say what its except clauses do with an HTTPException and with   *)
(* any other exception.                                                     *)

Op(op, when) == [op |-> op, when |-> when]

GetRecommendationsHandler ==
    [name |-> "get_recommendations", try_from |-> 2,
     on_http |-> "error_dict", on_error |-> "error_dict",
     program |-> <<Op("get_monitor", "always"), Op("monitor_clusters", "always"),
                   Op("get_cluster_metrics", "always"), Op("get_recent_logs", "always"),
                   Op("generate_recommendations", "always"),
                   Op("store_recommendations", "always"),
                   Op("set_chat_history", "always")>>]

GetServiceRecommendationsHandler ==
    [name |-> "get_service_recommendations", try_from |-> 2,
     on_http |-> "error_dict", on_error |-> "error_dict",
     program |-> <<Op("get_monitor", "always"),
                   Op("get_service_specific_metrics", "always"),
                   Op("generate_service_recommendations", "always"),
                   Op("set_chat_history", "always")>>]

\* the body of the loop of get_accounts, for one stored account
GetAccountsHandler ==
    [name |-> "get_accounts", try_from |-> 1,
     on_http |-> "inactive", on_error |-> "inactive",
     program |-> <<Op("get_monitor", "always"), Op("get_status", "always"),
                   Op("get_cluster_data", "always"),
                   Op("get_cluster_details", "no_cache"),
                   Op("store_cluster_data", "no_cache")>>]

ExportExcelReportHandler ==
    [name |-> "export_excel_report", try_from |-> 1,
     on_http |-> "500", on_error |-> "500",
     program |-> <<Op("get_monitor", "always"), Op("monitor_clusters", "always"),
                   Op("get_cluster_details", "always"),
                   Op("get_service_specific_metrics", "has_service"),
                   Op("generate_service_recommendations", "has_service")>>]

SendEmailNotificationHandler ==
    [name |-> "send_email_notification", try_from |-> 1,
     on_http |-> "error_dict", on_error |-> "error_dict",
     program |-> <<Op("find_account", "always"),
                   Op("get_current_recommendations", "always"),
                   Op("get_monitor", "no_recommendations"),
                   Op("get_cluster_metrics", "no_recommendations"),
                   Op("get_recent_logs", "no_recommendations"),
                   Op("generate_recommendations", "no_recommendations"),
                   Op("store_recommendations", "no_recommendations"),
                   Op("send_recommendations_email", "always")>>]

RefreshAccountDataHandler ==
    [name |-> "refresh_account_data", try_from |-> 1,
     on_http |-> "error_dict", on_error |-> "error_dict",
     program |-> <<Op("get_monitor", "always"), Op("monitor_clusters", "always"),
                   Op("get_cluster_details", "always"),
                   Op("store_cluster_data", "always")>>]

GetSpecificClusterRecommendationsHandler ==
    [name |-> "get_specific_cluster_recommendations", try_from |-> 1,
     on_http |-> "propagate", on_error |-> "500",
     program |-> <<Op("get_monitor", "always"), Op("get_cluster_data", "always"),
                   Op("monitor_clusters", "no_cache"),
                   Op("get_cluster_details", "no_cache"),
                   Op("store_cluster_data", "no_cache"),
                   Op("check_cluster", "always"),
                   Op("get_service_specific_metrics", "has_service"),
                   Op("generate_service_recommendations", "has_service"),
                   Op("store_service_recommendation", "has_service")>>]

\* get_cluster_recommendations written to store the fresh snapshot only after
\* the service recommendations
GetClusterRecommendationsHandlerMutant ==
    [name |-> "get_cluster_recommendations", try_from |-> 1,
     on_http |-> "500", on_error |-> "500",
     program |-> <<Op("get_monitor", "always"), Op("get_cluster_data", "always"),
                   Op("monitor_clusters", "no_cache"),
                   Op("get_cluster_details", "no_cache"),
                   Op("get_service_specific_metrics", "has_service"),
                   Op("generate_service_recommendations", "has_service"),
                   Op("store_service_recommendation", "has_service"),
                   Op("store_cluster_data", "no_cache")>>]

GetClusterRecommendationsHandler ==
    [name |-> "get_cluster_recommendations", try_from |-> 1,
     on_http |-> "500", on_error |-> "500",
     program |-> <<Op("get_monitor", "always"), Op("get_cluster_data", "always"),
                   Op("monitor_clusters", "no_cache"),
                   Op("get_cluster_details", "no_cache"),
                   Op("store_cluster_data", "no_cache"),
                   Op("get_service_specific_metrics", "has_service"),
                   Op("generate_service_recommendations", "has_service"),
                   Op("store_service_recommendation", "has_service")>>]

\* the body of the loop of generate_daily_cluster_recommendations and of
\* generate_weekly_cluster_recommendations, for one registered account
GenerateClusterRecommendationsJob ==
    [name |-> "generate_daily_cluster_recommendations", try_from |-> 1,
     on_http |-> "log", on_error |-> "log",
     program |-> <<Op("get_monitor", "always"), Op("monitor_clusters", "always"),
                   Op("get_cluster_details", "always"),
                   Op("store_cluster_data", "always"),
                   Op("get_service_specific_metrics", "has_service"),
                   Op("generate_service_recommendations", "has_service"),
                   Op("store_service_recommendation", "has_service")>>]

\* one round of the loop of start_monitoring
StartMonitoringJob ==
    [name |-> "start_monitoring", try_from |-> 1,
     on_http |-> "log", on_error |-> "log",
     program |-> <<Op("get_monitor", "always"), Op("monitor_clusters", "always")>>]

MonitorHandlers ==
    {GetRecommendationsHandler, GetServiceRecommendationsHandler, GetAccountsHandler,
     ExportExcelReportHandler, SendEmailNotificationHandler, RefreshAccountDataHandler,
     GetSpecificClusterRecommendationsHandler, GetClusterRecommendationsHandler,
     GenerateClusterRecommendationsJob, StartMonitoringJob}

HandlerNamed(name) == CHOOSE h \in MonitorHandlers : h.name = name

HandlerAccount == "111111111111"

\* What get_cluster_details returns for the clusters of a monitor
DetailsOf(clusters) == [c \in Range(clusters) |-> <<[name |-> "api"]>>]

\* What generate_recommendations returns
GeneratedRecommendations == [overall_health |-> "warning", generated_at |-> Timestamp]

NotRaised == "no"

\* No ECSMonitor yet, and the one get_monitor builds: ECSMonitor.__init__
\* leaves self.clusters empty
NoMonitor == [built |-> FALSE, clusters |-> <<>>, monitored |-> FALSE]
NewMonitor == [built |-> TRUE, clusters |-> <<>>, monitored |-> FALSE]

\* What one operation does, in the state the handler is in: the exception it
\* raises, if any, and the state it leaves.  a holds the request and what
\* the calls to AWS answer.
Effect(op, a) ==
    LET same == [raised |-> NotRaised, detail |-> "",
                 monitor |-> monitor, cluster_data |-> cluster_data, table |-> table,
                 recommendations_table |-> recommendations_table,
                 chat_history |-> chat_history]
        found == \E i \in table.items :
                    i.sk = <<"ACCOUNT_DATA">> /\ i.account_id = a.account_id
    IN  IF op = "get_monitor"
        THEN IF ~found
             THEN [same EXCEPT !.raised = "http 404", !.detail = "Account not found"]
             ELSE IF a.session_fails
             THEN [same EXCEPT !.raised = "error"]
             ELSE [same EXCEPT !.monitor = NewMonitor]
        ELSE IF op = "find_account"
        THEN IF ~found
             THEN [same EXCEPT !.raised = "http 404", !.detail = "Account info not found"]
             ELSE same
        ELSE IF op = "monitor_clusters"
        THEN [same EXCEPT !.monitor =
                 [built |-> TRUE,
                  clusters |-> IF a.list_fails THEN monitor.clusters ELSE a.listed,
                  monitored |-> TRUE]]
        ELSE IF op = "get_cluster_details"
        THEN [same EXCEPT !.cluster_data = DetailsOf(monitor.clusters)]
        ELSE IF op = "get_cluster_data"
        THEN [same EXCEPT !.cluster_data = GetClusterData(table, a.account_id, FALSE)]
        ELSE IF op = "store_cluster_data"
        THEN [same EXCEPT !.table.items =
                 StoreClusterData(table, a.account_id, cluster_data, now, FALSE).items]
        ELSE IF op = "check_cluster"
        THEN IF a.cluster_name \notin DOMAIN cluster_data
             THEN [same EXCEPT !.raised = "http 404", !.detail = "Cluster not found"]
             ELSE same
        ELSE IF op = "store_recommendations"
        THEN [same EXCEPT !.table.items =
                 StoreRecommendations(table, a.account_id, GeneratedRecommendations,
                                      now, FALSE)]
        ELSE IF op = "store_service_recommendation"
        THEN [same EXCEPT !.recommendations_table.items =
                 StoreServiceRecommendation(recommendations_table, a.account_id,
                    <<"p", "r", "o", "d">>, <<"a", "p", "i">>,
                    [service_health |-> "good", priority |-> "low"], now, FALSE)]
        ELSE IF op = "set_chat_history"
        THEN [same EXCEPT !.chat_history =
                 SetHistory(chat_history, a.account_id,
                            <<Message("system", a.handler, 0),
                              Message("assistant", "recommendations", 0)>>)]
        ELSE same

\* the places of the trace where an operation was called
CallsOf(ops) == {i \in 1..Len(trace) : trace[i].op \in ops}

\* Does a step run, in the state the handler is in.  "if not cluster_data:"
\* is evaluated once, on the snapshot read from the store: the handler that
\* has entered the block runs all of it.
Runs(when, a) ==
    IF when = "no_cache"
    THEN CallsOf({"monitor_clusters", "get_cluster_details"}) # {}
         \/ DOMAIN cluster_data = {}
    ELSE IF when = "no_recommendations" THEN ~a.has_recommendations
    ELSE IF when = "has_service"
    THEN \E c \in DOMAIN cluster_data :
            cluster_data[c] # <<>>
            /\ (a.handler = "get_specific_cluster_recommendations" => c = a.cluster_name)
    ELSE TRUE

\* The answer to a request whose handler raised at step k
AnswerOfRaise(h, k, raised, detail) ==
    LET http == raised = "http 404"
        policy == IF k < h.try_from THEN "propagate"
                  ELSE IF http THEN h.on_http ELSE h.on_error
    IN  IF policy = "propagate"
        THEN [status |-> IF http THEN 404 ELSE 500,
              detail |-> IF http THEN detail ELSE "Internal Server Error"]
        ELSE IF policy = "500" THEN [status |-> 500, detail |-> "Error processing"]
        ELSE IF policy = "error_dict" THEN [status |-> 200, detail |-> "error"]
        ELSE IF policy = "inactive" THEN [status |-> 200, detail |-> "inactive"]
        ELSE [status |-> 0, detail |-> "logged"]

-----------------------------------------------------------------------------
(* SpecHandlers: one request to, or one round of, each of these handlers    *)
(* and jobs, for a stored or unknown account, with or without a cached      *)
(* snapshot and stored recommendations                                      *)

CachedSnapshot == [prod |-> <<[name |-> "api"]>>]

InitHandlers ==
    /\ pc = "handler"
    /\ IdleAI /\ IdleService /\ IdleFn
    /\ \E h \in MonitorHandlers, stored \in BOOLEAN, cache \in {"none", "empty", "snapshot"},
          listed \in {<<>>, <<"prod">>}, list_fails \in BOOLEAN,
          session_fails \in BOOLEAN, cluster_name \in {"prod", "other"},
          has_recommendations \in BOOLEAN :
          /\ ~stored => (cache = "none" /\ ~has_recommendations)
          /\ (h.name \in {"get_accounts", "generate_daily_cluster_recommendations",
                          "start_monitoring"}) => stored
          /\ handler = [name |-> h.name, account_id |-> HandlerAccount,
                        handler |-> h.name, cluster_name |-> cluster_name,
                        stored |-> stored, cache |-> cache, listed |-> listed,
                        list_fails |-> list_fails, session_fails |-> session_fails,
                        has_recommendations |-> has_recommendations]
          /\ table =
                [available |-> TRUE,
                 items |->
                    (IF stored THEN {AccountItem(AccountData(HandlerAccount), 0)} ELSE {})
                    \cup (IF cache = "snapshot"
                          THEN {ClusterDataItem(HandlerAccount, CachedSnapshot, 0)}
                          ELSE IF cache = "empty"
                          THEN {ClusterDataItem(HandlerAccount, EmptyDict, 0)}
                          ELSE {})
                    \cup (IF has_recommendations
                          THEN {RecommendationsItem(HandlerAccount,
                                                    GeneratedRecommendations, 0)}
                          ELSE {})]
    /\ recommendations_table = [available |-> TRUE, items |-> {}]
    /\ last_put = <<table.items, recommendations_table.items>>
    /\ last_call = <<>>
    /\ now = 1
    /\ cluster_data = <<>> /\ faults = <<>> /\ task_state = <<>> /\ task_result = <<>>
    /\ response = <<>>
    /\ chat_history = [a \in {HandlerAccount} |->
                          <<Message("system", "default", 0), Message("user", "question", 0)>>]
    /\ chat_start = chat_history
    /\ ai_recommenders = [a \in {HandlerAccount} |-> TRUE]
    /\ requests = <<>>
    /\ calls = 0
    /\ monitor = NoMonitor
    /\ trace = <<>>

HandlerFrame ==
    UNCHANGED <<aiVars, svcVars, fnVars, last_put, last_call, now, faults, task_state,
                task_result, handler, chat_start, ai_recommenders, requests>>

\* The handler goes past a step whose condition is false
SkipStep ==
    /\ pc = "handler"
    /\ calls < Len(HandlerNamed(handler.name).program)
    /\ ~Runs(HandlerNamed(handler.name).program[calls + 1].when, handler)
    /\ calls' = calls + 1
    /\ UNCHANGED <<pc, table, recommendations_table, cluster_data, response,
                   chat_history, monitor, trace>>
    /\ HandlerFrame

\* The handler makes its next call, which returns
RunStep ==
    /\ pc = "handler"
    /\ calls < Len(HandlerNamed(handler.name).program)
    /\ LET step == HandlerNamed(handler.name).program[calls + 1]
           out == Effect(step.op, handler)
       IN  /\ Runs(step.when, handler)
           /\ out.raised = NotRaised
           /\ trace' = Append(trace, [op |-> step.op, monitored |-> monitor.monitored])
           /\ monitor' = out.monitor
           /\ cluster_data' = out.cluster_data
           /\ table' = out.table
           /\ recommendations_table' = out.recommendations_table
           /\ chat_history' = out.chat_history
    /\ calls' = calls + 1
    /\ UNCHANGED <<pc, response>>
    /\ HandlerFrame

\* The handler makes its next call, which raises: the request is answered by
\* the except clause of the handler, or by FastAPI when there is none
RaiseStep ==
    /\ pc = "handler"
    /\ calls < Len(HandlerNamed(handler.name).program)
    /\ LET h == HandlerNamed(handler.name)
           step == h.program[calls + 1]
           out == Effect(step.op, handler)
       IN  /\ Runs(step.when, handler)
           /\ out.raised # NotRaised
           /\ trace' = Append(trace, [op |-> step.op, monitored |-> monitor.monitored])
           /\ response' = AnswerOfRaise(h, calls + 1, out.raised, out.detail)
    /\ pc' = "returned"
    /\ UNCHANGED <<calls, table, recommendations_table, cluster_data, chat_history, monitor>>
    /\ HandlerFrame

\* The handler returns after its last step
ReturnStep ==
    /\ pc = "handler"
    /\ calls = Len(HandlerNamed(handler.name).program)
    /\ response' = [status |-> 200, detail |-> "ok"]
    /\ pc' = "returned"
    /\ UNCHANGED <<calls, table, recommendations_table, cluster_data, chat_history,
                   monitor, trace>>
    /\ HandlerFrame

NextHandlers == SkipStep \/ RunStep \/ RaiseStep \/ ReturnStep

SpecHandlers == InitHandlers /\ [][NextHandlers]_vars


-----------------------------------------------------------------------------
(* C24: the cached snapshot in the two cluster recommendation handlers      *)

ClusterRecommendationHandlers ==
    {"get_cluster_recommendations", "get_specific_cluster_recommendations"}

FetchCalls == {"monitor_clusters", "get_cluster_details", "store_cluster_data"}

ServiceRecommendationCalls ==
    {"generate_service_recommendations", "store_service_recommendation"}

\* monitor_clusters, then get_cluster_details, then store_cluster_data have
\* all been called before place i of the trace
FetchedAndStoredBefore(i) ==
    \E a, b, c \in 1..Len(trace) :
        /\ a < b /\ b < c /\ c < i
        /\ trace[a].op = "monitor_clusters"
        /\ trace[b].op = "get_cluster_details"
        /\ trace[c].op = "store_cluster_data"

\* the handler is past its read of the cached snapshot
PastCacheRead == CallsOf({"get_cluster_data"}) # {}

\* The snapshot is fetched only in this order, and stored before any service
\* recommendation is generated or stored
FetchInOrder ==
    /\ \A b \in CallsOf({"get_cluster_details"}) :
          \E a \in CallsOf({"monitor_clusters"}) : a < b
    /\ \A c \in CallsOf({"store_cluster_data"}) :
          \E b \in CallsOf({"get_cluster_details"}) : b < c
    /\ \A i \in CallsOf(ServiceRecommendationCalls) :
          CallsOf(FetchCalls) # {} => FetchedAndStoredBefore(i)
    /\ CallsOf({"store_cluster_data"}) # {} =>
          GetClusterData(table, handler.account_id, FALSE) = cluster_data

C24_WitnessCached ==
    /\ pc = "returned"
    /\ handler.name = "get_specific_cluster_recommendations"
    /\ handler.cache = "snapshot"
    /\ response.status = 200
    /\ CallsOf({"store_service_recommendation"}) # {}

-----------------------------------------------------------------------------
(* C27: monitor_clusters before the calls that walk the cluster list        *)

ClusterListCalls == {"get_cluster_details", "get_cluster_metrics", "get_recent_logs"}

\* the handlers that call these on the monitor get_monitor has just built
UnpopulatedCallers == {"get_accounts", "send_email_notification"}

\* C27: in every request handler and scheduled job, each call of
\* get_cluster_details, get_cluster_metrics or get_recent_logs on a monitor
\* comes after a monitor_clusters call on that same monitor, so none of them
\* runs against a cluster list that was never populated.
C27_MonitorClustersFirst ==
    \A i \in CallsOf(ClusterListCalls) : trace[i].monitored

\* What the code does: the order holds in every handler and job but
\* get_accounts and send_email_notification, whose calls always run on the
\* empty cluster list of a new monitor.
C27_MonitorClustersFirstExceptTwo ==
    \A i \in CallsOf(ClusterListCalls) :
        trace[i].monitored <=> handler.name \notin UnpopulatedCallers

\* get_accounts stored the empty snapshot of a monitor that was never populated
C27_Unpopulated ==
    /\ pc = "returned"
    /\ handler.name = "get_accounts"
    /\ handler.listed # <<>> /\ ~handler.list_fails
    /\ CallsOf({"store_cluster_data"}) # {}
    /\ GetClusterData(table, handler.account_id, FALSE) = EmptyDict

-----------------------------------------------------------------------------
(* C28: a request for an account that is not stored                         *)

AccountNotFound == [status |-> 404, detail |-> "Account not found"]

\* the request was for an account that is not stored, its handler called
\* get_monitor, and it has been answered
UnknownAccountAnswered ==
    /\ pc = "returned"
    /\ ~handler.stored
    /\ CallsOf({"get_monitor"}) # {}

\* neither table nor the chat history differs from what the request met
NothingWritten ==
    /\ table.items = last_put[1]
    /\ recommendations_table.items = last_put[2]
    /\ chat_history = chat_start

\* C28: every endpoint that resolves its account through get_monitor
\* answers a request for an account id that is not stored with the 404
\* 'Account not found' of get_monitor, and writes nothing to the store and
\* changes no chat history for it.
C28_UnknownAccountIs404 ==
    UnknownAccountAnswered => (response = AccountNotFound /\ NothingWritten)

\* the endpoints whose except clause catches the HTTPException of get_monitor
SwallowingHandlers ==
    {"get_cluster_recommendations", "export_excel_report", "refresh_account_data"}

\* What the code does: nothing is written, and the 404 reaches the client
\* unless the endpoint's "except Exception" catches it: then the answer is
\* a 500, or for refresh_account_data a 200 carrying an error.
C28_UnknownAccountIs404UnlessSwallowed ==
    UnknownAccountAnswered =>
        /\ NothingWritten
        /\ response = AccountNotFound <=> handler.name \notin SwallowingHandlers
        /\ handler.name \in {"get_cluster_recommendations", "export_excel_report"}
              => response.status = 500
        /\ handler.name = "refresh_account_data" => response.status = 200

\* get_specific_cluster_recommendations answered 404 for an unknown account
C28_NotFoundReached ==
    /\ UnknownAccountAnswered
    /\ handler.name = "get_specific_cluster_recommendations"
    /\ response = AccountNotFound

-----------------------------------------------------------------------------
(* C25, C26: _fallback_service_recommendations, checked in SpecService      *)

Severity(health) == IF health = "good" THEN 0 ELSE IF health = "warning" THEN 1 ELSE 2

\* avg > threshold, for the average of a non-empty series
AverageAbove(series, threshold) ==
    series # <<>> /\ SumSeq(series) > threshold * Len(series)

\* the answer of the fallback for the same samples and n error lines
FallbackWithErrors(n) ==
    FallbackServiceRecommendations(ServiceData(svc_metrics, LogList(n, 0), "prod", "api"))

\* C25: with non-empty metrics the health severity (good < warning <
\* critical) never decreases when more error lines are supplied: for fixed
\* CPU and memory samples a service whose average CPU and average memory
\* both exceed their thresholds is 'critical' with priority 'high' for
\* every number of error lines.
C25_SeverityNeverDecreasesWithErrors ==
    (pc = "fallback" /\ (svc_metrics.cpu # <<>> \/ svc_metrics.memory # <<>>)) =>
        LET r == svc_result.value
        IN  /\ \A n \in 0..Len(FilterErrors(logs)) :
                  Severity(FallbackWithErrors(n).service_health)
                     <= Severity(r.service_health)
            /\ (AverageAbove(svc_metrics.cpu, CPU_HIGH_THRESHOLD)
                /\ AverageAbove(svc_metrics.memory, MEMORY_HIGH_THRESHOLD))
                  => (r.service_health = "critical" /\ r.priority = "high")

\* What the code does: a service with both averages above their thresholds
\* is 'critical' and 'high' up to ERROR_LOG_THRESHOLD error lines, and
\* 'warning' and 'medium' with more.
C25_CriticalUnlessManyErrors ==
    (pc = "fallback"
     /\ AverageAbove(svc_metrics.cpu, CPU_HIGH_THRESHOLD)
     /\ AverageAbove(svc_metrics.memory, MEMORY_HIGH_THRESHOLD)) =>
        LET r == svc_result.value
        IN  IF Len(FilterErrors(logs)) > ERROR_LOG_THRESHOLD
            THEN r.service_health = "warning" /\ r.priority = "medium"
            ELSE r.service_health = "critical" /\ r.priority = "high"

\* both averages high and more error lines than the threshold: a warning
C25_Downgraded ==
    /\ pc = "fallback"
    /\ AverageAbove(svc_metrics.cpu, CPU_HIGH_THRESHOLD)
    /\ AverageAbove(svc_metrics.memory, MEMORY_HIGH_THRESHOLD)
    /\ Len(FilterErrors(logs)) > ERROR_LOG_THRESHOLD
    /\ svc_result.value.service_health = "warning"
    /\ FallbackWithErrors(0).service_health = "critical"

\* C26: every response of _fallback_service_recommendations has priority
\* 'high' iff service_health is 'critical', 'medium' iff it is 'warning' and
\* 'low' iff it is 'good'; and scaling_action is 'scale_up' iff the average
\* CPU or the average memory exceeds its high threshold, otherwise
\* 'no_change'.
C26_PriorityFollowsHealth ==
    pc = "fallback" =>
        LET r == svc_result.value
        IN  /\ ~svc_result.raised
            /\ r.service_health \in {"good", "warning", "critical"}
            /\ r.priority = "high" <=> r.service_health = "critical"
            /\ r.priority = "medium" <=> r.service_health = "warning"
            /\ r.priority = "low" <=> r.service_health = "good"
            /\ r.scaling_action =
                  IF AverageAbove(svc_metrics.cpu, CPU_HIGH_THRESHOLD)
                     \/ AverageAbove(svc_metrics.memory, MEMORY_HIGH_THRESHOLD)
                  THEN "scale_up" ELSE "no_change"

\* C26 witness: only the memory average is high and the error lines are
\* few; the fallback answers a warning of medium priority that scales up.
C26_Witness ==
    /\ pc = "fallback"
    /\ svc_metrics.cpu # <<>>
    /\ ~AverageAbove(svc_metrics.cpu, CPU_HIGH_THRESHOLD)
    /\ AverageAbove(svc_metrics.memory, MEMORY_HIGH_THRESHOLD)
    /\ svc_result.value.service_health = "warning"
    /\ svc_result.value.priority = "medium"
    /\ svc_result.value.scaling_action = "scale_up"

\* C26 witness: a healthy service, of low priority and left as it is
C26_WitnessGood ==
    /\ pc = "fallback"
    /\ svc_result.value.service_health = "good"
    /\ svc_result.value.priority = "low"
    /\ svc_result.value.scaling_action = "no_change"

-----------------------------------------------------------------------------
(* C29: the frame of store_service_recommendation, checked in SpecDB        *)

ServiceTuples == Accounts \X DbClusters \X DbServices

\* the stored recommendation of a tuple
StoredServiceRecord(t) ==
    {i \in recommendations_table.items :
        i.account_id = t[1] /\ i.cluster = t[2] /\ i.service = t[3]}

\* C29: store_service_recommendation(account, cluster, service, r) changes
\* only the record of that (account, cluster, service): the stored
\* recommendation of every other tuple, those of the same account with
\* another cluster or service name included, is the same after the call
\* as before it; distinct tuples never share a record.
C29_OnlyThatTupleChanges ==
    [][/\ \A t \in ServiceTuples :
             StoredServiceRecord(t)' # StoredServiceRecord(t) =>
                /\ last_call'.op = "store_service_recommendation"
                /\ last_call'.wrote
                /\ last_call'.account = t[1]
                /\ t \in DOMAIN last_put'.service
                /\ last_put'.service[t].timestamp = now'
                /\ StoredServiceRecord(t)' = {last_put'.service[t]}
       /\ Cardinality({t \in ServiceTuples : StoredServiceRecord(t)' # StoredServiceRecord(t)}) <= 1
       /\ last_call'.op = "store_service_recommendation" => table' = table
       /\ \A i \in recommendations_table.items, j \in recommendations_table.items :
             (i.account_id = j.account_id
              /\ i.service_cluster_key = j.service_cluster_key) => i = j]_vars

\* C29 witness: two calls for the same account wrote, for ("a", "bc") and
\* for ("ab", "c"), and the table holds the record of each
C29_Witness ==
    /\ last_call.op = "store_service_recommendation" /\ last_call.wrote
    /\ last_call.prev.op = "store_service_recommendation" /\ last_call.prev.wrote
    /\ last_call.prev.account = last_call.account
    /\ \E i \in recommendations_table.items, j \in recommendations_table.items :
          /\ i.account_id = last_call.account /\ j.account_id = last_call.account
          /\ i.cluster = <<"a">> /\ i.service = <<"b", "c">>
          /\ j.cluster = <<"a", "b">> /\ j.service = <<"c">>
          /\ i.timestamp # j.timestamp

====
